---- MODULE Spec2Model ----
(***************************************************************************)
(* Route planner of train_system_backend (src/src/routes/service.py):      *)
(* the NetworkGraph built from the station / line / transfer-point tables, *)
(* the constrained Dijkstra search of RouteCalculator and the generation   *)
(* of alternative routes; the fare engine (fare_service.py), the request   *)
(* validator (validation.py) and the endpoints that join them (router.py). *)
(*                                                                         *)
(* Money is counted in whole baht and time in whole minutes.  Python's     *)
(* None is the value None below; database ids start at 1.                  *)
(***************************************************************************)
EXTENDS Integers, Sequences, FiniteSets, TLC

VARIABLES db, graph, request, routes, raised, op, route_cache, response,
          _ticket_storage, _validation_logs, _booking_storage, now

\* the state of a TicketService and of a BookingService, and the wall clock
serviceVars == <<_ticket_storage, _validation_logs, _booking_storage, now>>

vars == <<db, graph, request, routes, raised, op, route_cache, response, serviceVars>>

\* ---------------------------------------------------------------- bounds
MaxStations == 3
MaxTransferPoints == 2

\* ------------------------------------------------------ program constants
None == 0
TRAIN_DURATION == 3
BASE_FARE == 15
TRANSFER_PENALTY == 5
MAX_ROUTES == 3
SIGNIFICANT_DIFF == 10
SCORE_BASE == 1000
SCORE_PER_TRANSFER == 100
DEFAULT_MAX_WALKING_TIME == 10
DEFAULT_MAX_TRANSFERS == 3

\* ------------------------------------------------------- generic helpers
Abs(x) == IF x < 0 THEN 0 - x ELSE x

Range(s) == {s[i] : i \in 1..Len(s)}

\* ------------------------------------------------- the database snapshot
StationIds == 1..MaxStations

UnknownStationId == MaxStations + 1

LineIds == {1, 2}

\* Station.name, as its rank in the collation order of the names
NameOrders == {[s \in StationIds |-> s], [s \in StationIds |-> (s % MaxStations) + 1]}

\* (walking_time_minutes, transfer_fee, is_active) of a transfer point
TransferParams ==
    { [walking_time_minutes |-> 1, transfer_fee |-> 0,  is_active |-> TRUE],
      [walking_time_minutes |-> 2, transfer_fee |-> 20, is_active |-> TRUE],
      [walking_time_minutes |-> 1, transfer_fee |-> 0,  is_active |-> FALSE] }

StationPairs == {p \in StationIds \X StationIds : p[1] < p[2]}

TransferRows ==
    { [station_a_id |-> p[1], station_b_id |-> p[2],
       walking_time_minutes |-> q.walking_time_minutes,
       transfer_fee |-> q.transfer_fee, is_active |-> q.is_active] :
      p \in StationPairs, q \in TransferParams }

PairLess(r1, r2) ==
    \/ r1.station_a_id < r2.station_a_id
    \/ r1.station_a_id = r2.station_a_id /\ r1.station_b_id < r2.station_b_id

\* the transfer_points table in insertion order, one point per station pair
TransferTables ==
    UNION { { t \in [1..n -> TransferRows] :
                \A i \in 1..n, j \in 1..n : i < j => PairLess(t[i], t[j]) } :
            n \in 0..MaxTransferPoints }

\* Station.line_id: station 1 is on line 1 and at most the last station is
\* a transfer-only station without a line
LineAssignments ==
    { f \in [StationIds -> LineIds \cup {None}] :
        f[1] = 1 /\ \A s \in 1..(MaxStations - 1) : f[s] # None }

\* the stations table: row id |-> (line_id, name)
StationTables ==
    { [s \in StationIds |-> [id |-> s, line_id |-> l[s], name |-> nm[s]]] :
      l \in LineAssignments,
      nm \in NameOrders }

Databases ==
    { [stations |-> st, train_lines |-> LineIds, transfer_points |-> tp] :
      st \in StationTables, tp \in TransferTables }

\* ------------------------------------------------------------ NetworkGraph
EmptyGraph == [nodes |-> <<>>, edges |-> <<>>, station_line_map |-> <<>>]

\* dict assignment d[k] = v
Put(d, k, v) == [x \in (DOMAIN d) \cup {k} |-> IF x = k THEN v ELSE d[x]]

InSeq(x, s) == \E i \in 1..Len(s) : s[i] = x

add_node(g, node) ==
    LET id == node.station_id
        edges1 == IF id \in DOMAIN g.edges THEN g.edges ELSE Put(g.edges, id, <<>>)
        slm0 == g.station_line_map
        slm1 == IF node.line_id # None
                THEN LET m == IF id \in DOMAIN slm0 THEN slm0 ELSE Put(slm0, id, <<>>)
                     IN  IF InSeq(node.line_id, m[id]) THEN m
                         ELSE Put(m, id, Append(m[id], node.line_id))
                ELSE slm0
    IN  [nodes |-> Put(g.nodes, id, node), edges |-> edges1, station_line_map |-> slm1]

add_edge(g, edge) ==
    LET f == edge.from_station_id
        edges1 == IF f \in DOMAIN g.edges THEN g.edges ELSE Put(g.edges, f, <<>>)
    IN  [g EXCEPT !.edges = Put(edges1, f, Append(edges1[f], edge))]

get_neighbors(g, station_id) ==
    IF station_id \in DOMAIN g.edges THEN g.edges[station_id] ELSE <<>>

\* mutant: the lookup stores the default list under a missing key
get_neighbors_stored_SetDefault(g, station_id) ==
    IF station_id \in DOMAIN g.edges THEN g
    ELSE [g EXCEPT !.edges = Put(g.edges, station_id, <<>>)]

\* lines 40-42: what the lookup leaves in the graph; dict.get stores nothing
get_neighbors_stored(g, station_id) == g

is_interchange_station(g, station_id) ==
    IF station_id \in DOMAIN g.station_line_map
    THEN Len(g.station_line_map[station_id]) > 1
    ELSE FALSE

NetworkEdge(f, t, type, duration, cost, line) ==
    [from_station_id |-> f, to_station_id |-> t, transport_type |-> type,
     duration_minutes |-> duration, cost |-> cost, line_id |-> line]

_get_base_fare(line_id, from_station_id, to_station_id) == BASE_FARE

\* query(Station).filter(line_id == line).order_by(name).all()
RECURSIVE OrderByName(_)
OrderByName(rows) ==
    IF rows = {} THEN <<>>
    ELSE LET first == CHOOSE r \in rows : \A o \in rows : r.name <= o.name
         IN  <<first>> \o OrderByName(rows \ {first})

\* ascending ids: the order in which query(...).all() returns the rows
RECURSIVE SetToSeq(_)
SetToSeq(S) ==
    IF S = {} THEN <<>>
    ELSE LET m == CHOOSE x \in S : \A y \in S : x <= y
         IN  <<m>> \o SetToSeq(S \ {m})

\* mutant: the stations of a line in id order instead of name order
LineStations_ById(d, line) ==
    LET ids == SetToSeq({x \in DOMAIN d.stations : d.stations[x].line_id = line})
    IN  [i \in 1..Len(ids) |-> d.stations[ids[i]]]

LineStations(d, line) ==
    OrderByName({d.stations[s] : s \in {x \in DOMAIN d.stations : d.stations[x].line_id = line}})

RECURSIVE AddNodes(_, _, _)
AddNodes(g, d, ids) ==
    IF ids = <<>> THEN g
    ELSE LET st == d.stations[Head(ids)]
         IN  AddNodes(add_node(g, [station_id |-> st.id, station_name |-> st.name,
                                   line_id |-> st.line_id]),
                      d, Tail(ids))

RECURSIVE AddLineEdges(_, _, _, _)
AddLineEdges(g, line, line_stations, i) ==
    IF i > Len(line_stations) - 1 THEN g
    ELSE LET current_station == line_stations[i]
             next_station == line_stations[i + 1]
             base_fare == _get_base_fare(line, current_station.id, next_station.id)
             edge == NetworkEdge(current_station.id, next_station.id, "train",
                                 TRAIN_DURATION, base_fare, line)
             edge_reverse == NetworkEdge(next_station.id, current_station.id, "train",
                                         TRAIN_DURATION, base_fare, line)
         IN  AddLineEdges(add_edge(add_edge(g, edge), edge_reverse),
                          line, line_stations, i + 1)

RECURSIVE AddLines(_, _, _)
AddLines(g, d, lines) ==
    IF lines = <<>> THEN g
    ELSE AddLines(AddLineEdges(g, Head(lines), LineStations(d, Head(lines)), 1),
                  d, Tail(lines))

RECURSIVE AddTransfers(_, _)
AddTransfers(g, transfers) ==
    IF transfers = <<>> THEN g
    ELSE LET transfer == Head(transfers)
             transfer_edge ==
                 NetworkEdge(transfer.station_a_id, transfer.station_b_id, "transfer",
                             transfer.walking_time_minutes, transfer.transfer_fee, None)
             transfer_edge_reverse ==
                 NetworkEdge(transfer.station_b_id, transfer.station_a_id, "transfer",
                             transfer.walking_time_minutes, transfer.transfer_fee, None)
         IN  AddTransfers(add_edge(add_edge(g, transfer_edge), transfer_edge_reverse),
                          Tail(transfers))

\* mutant: the is_active filter of lines 116-118 is missing
ActiveTransfers_All(d) == d.transfer_points

\* query(TransferPoint).filter(is_active == True).all()
ActiveTransfers(d) == SelectSeq(d.transfer_points, LAMBDA t : t.is_active = TRUE)

_build_network_graph(d) ==
    LET g1 == AddNodes(EmptyGraph, d, SetToSeq(DOMAIN d.stations))
        g2 == AddLines(g1, d, SetToSeq(d.train_lines))
    IN  AddTransfers(g2, ActiveTransfers(d))

\* ---------------------------------------------------------- RouteCalculator
\* mutant: mode transfers without the penalty of line 279
_calculate_edge_cost_NoPenalty(edge, optimization) ==
    LET base_time == edge.duration_minutes
        base_cost == edge.cost
    IN  CASE optimization = "time" -> base_time
          [] optimization = "cost" -> base_cost
          [] optimization = "transfers" -> base_time
          [] OTHER -> base_time + (base_cost \div 10)

_calculate_edge_cost(edge, optimization) ==
    LET base_time == edge.duration_minutes
        base_cost == edge.cost
    IN  CASE optimization = "time" -> base_time
          [] optimization = "cost" -> base_cost
          [] optimization = "transfers" ->
                 IF edge.transport_type = "transfer"
                 THEN base_time * TRANSFER_PENALTY
                 ELSE base_time
          [] OTHER -> base_time + (base_cost \div 10)

\* order of the heap tuples (cost, station_id, ...): no two entries of one
\* station ever carry the same cost, so the later components never decide
TupleLess(a, b) ==
    \/ a.cost < b.cost
    \/ a.cost = b.cost /\ a.station < b.station

\* heapq.heappop: index of the smallest tuple
HeapMinIndex(pq) ==
    CHOOSE i \in 1..Len(pq) : \A j \in 1..Len(pq) : j # i => ~TupleLess(pq[j], pq[i])

RemoveAt(s, i) == SubSeq(s, 1, i - 1) \o SubSeq(s, i + 1, Len(s))

HeapEntry(cost, station, path, transfers, walking_time, prev_line_id) ==
    [cost |-> cost, station |-> station, path |-> path, transfers |-> transfers,
     walking_time |-> walking_time, prev_line_id |-> prev_line_id]

\* mutant: only a change of line counts, a transfer edge does not
NewTransfers_LineChangeOnly(cur, edge) ==
    IF edge.transport_type = "train" /\ cur.prev_line_id # None
       /\ cur.prev_line_id # edge.line_id
    THEN cur.transfers + 1
    ELSE cur.transfers

\* mutant: a change of line between two train edges is not counted
NewTransfers_TransferEdgesOnly(cur, edge) ==
    IF edge.transport_type = "transfer" THEN cur.transfers + 1 ELSE cur.transfers

\* lines 243-250: the transfer counter after taking edge
NewTransfers(cur, edge) ==
    IF edge.transport_type = "transfer" THEN cur.transfers + 1
    ELSE IF edge.transport_type = "train" /\ cur.prev_line_id # None
            /\ cur.prev_line_id # edge.line_id
         THEN cur.transfers + 1
         ELSE cur.transfers

NewWalkingTime(cur, edge) ==
    IF edge.transport_type = "transfer"
    THEN cur.walking_time + edge.duration_minutes
    ELSE cur.walking_time

\* mutant: the walking-time cap is not looked at
ConstraintsExceeded_TransfersOnly(transfers, walking_time, max_transfers, max_walking_time) ==
    transfers > max_transfers

\* line 253: skip if constraints exceeded
ConstraintsExceeded(transfers, walking_time, max_transfers, max_walking_time) ==
    transfers > max_transfers \/ walking_time > max_walking_time

\* line 257: add to queue if better path found
IsBetterPath(distances, next_station, new_cost) ==
    next_station \notin DOMAIN distances \/ new_cost < distances[next_station]

\* lines 232-263: the loop over the neighbours of the popped station
RECURSIVE ExploreNeighbors(_, _, _, _, _, _, _)
ExploreNeighbors(s, cur, edges, i, optimization, max_walking_time, max_transfers) ==
    IF i > Len(edges) THEN s
    ELSE LET edge == edges[i]
             next_station == edge.to_station_id
             new_cost == cur.cost + _calculate_edge_cost(edge, optimization)
             new_transfers == NewTransfers(cur, edge)
             new_walking_time == NewWalkingTime(cur, edge)
             s1 == IF next_station \in s.visited THEN s
                   ELSE IF ConstraintsExceeded(new_transfers, new_walking_time,
                                               max_transfers, max_walking_time) THEN s
                   ELSE IF IsBetterPath(s.distances, next_station, new_cost)
                   THEN [s EXCEPT
                           !.distances = Put(s.distances, next_station, new_cost),
                           !.pq = Append(s.pq, HeapEntry(new_cost, next_station,
                                                         Append(cur.path, edge),
                                                         new_transfers, new_walking_time,
                                                         edge.line_id)),
                           !.pushes = s.pushes + 1,
                           !.pushed = Append(s.pushed,
                                             HeapEntry(new_cost, next_station,
                                                       Append(cur.path, edge),
                                                       new_transfers, new_walking_time,
                                                       edge.line_id))]
                   ELSE s
         IN  ExploreNeighbors(s1, cur, edges, i + 1, optimization,
                              max_walking_time, max_transfers)

SearchStart(start_id) ==
    [pq |-> <<HeapEntry(0, start_id, <<>>, 0, 0, None)>>,
     visited |-> {},
     distances |-> Put(<<>>, start_id, 0),
     found |-> FALSE,
     path |-> <<>>,
     pushes |-> 1,
     pushed |-> <<HeapEntry(0, start_id, <<>>, 0, 0, None)>>,
     expanded |-> <<>>]

\* mutant: the popped station is not remembered
MarkVisited_Never(visited, station) == visited

\* line 219: visited.add(current_station)
MarkVisited(visited, station) == visited \cup {station}

\* lines 213-263: one iteration of the while loop
SearchIteration(g, s, end_id, optimization, max_walking_time, max_transfers) ==
    LET i == HeapMinIndex(s.pq)
        cur == s.pq[i]
        s1 == [s EXCEPT !.pq = RemoveAt(s.pq, i)]
    IN  IF cur.station \in s.visited THEN s1
        ELSE LET s2 == [s1 EXCEPT !.visited = MarkVisited(s.visited, cur.station)]
             IN  IF cur.station = end_id
                 THEN [s2 EXCEPT !.found = TRUE, !.path = cur.path]
                 ELSE IF ConstraintsExceeded(cur.transfers, cur.walking_time,
                                             max_transfers, max_walking_time)
                 THEN s2
                 ELSE ExploreNeighbors([s2 EXCEPT !.expanded = Append(@, cur.station)],
                                       cur, get_neighbors(g, cur.station), 1,
                                       optimization, max_walking_time, max_transfers)

RECURSIVE SearchLoop(_, _, _, _, _, _)
SearchLoop(g, s, end_id, optimization, max_walking_time, max_transfers) ==
    IF s.found \/ s.pq = <<>> THEN s
    ELSE SearchLoop(g, SearchIteration(g, s, end_id, optimization,
                                       max_walking_time, max_transfers),
                    end_id, optimization, max_walking_time, max_transfers)

\* the loop of lines 213-263 run for at most n iterations
RECURSIVE SearchSteps(_, _, _, _, _, _, _)
SearchSteps(g, s, n, end_id, optimization, max_walking_time, max_transfers) ==
    IF n = 0 \/ s.found \/ s.pq = <<>> THEN s
    ELSE SearchSteps(g, SearchIteration(g, s, end_id, optimization,
                                        max_walking_time, max_transfers),
                     n - 1, end_id, optimization, max_walking_time, max_transfers)

_calculate_optimization_score(summary, optimization) ==
    CASE optimization = "time" -> SCORE_BASE - summary.total_duration_minutes
      [] optimization = "cost" -> SCORE_BASE - summary.total_cost
      [] optimization = "transfers" ->
             SCORE_BASE - (summary.total_transfers * SCORE_PER_TRANSFER)
      [] OTHER -> SCORE_BASE - ((summary.total_duration_minutes + summary.total_cost) \div 2)

\* lines 298-341: the accumulators of the loop over the path; times are
\* minutes after the departure time
ConstructStart ==
    [segments |-> <<>>, current_time |-> 0, total_cost |-> 0, total_duration |-> 0,
     total_transfers |-> 0, walking_time |-> 0, lines_used |-> {}, raised |-> "none"]

\* mutant: segment_order is the index of enumerate, which starts at 0
RouteSegment_ZeroBased(i, edge, g, current_time) ==
    [segment_order |-> i - 1,
     transport_type |-> edge.transport_type,
     from_station_id |-> edge.from_station_id,
     from_station_name |-> g.nodes[edge.from_station_id].station_name,
     to_station_id |-> edge.to_station_id,
     to_station_name |-> g.nodes[edge.to_station_id].station_name,
     line_id |-> edge.line_id,
     duration_minutes |-> edge.duration_minutes,
     cost |-> edge.cost,
     departure_time |-> current_time,
     arrival_time |-> current_time + edge.duration_minutes]

RouteSegment(i, edge, g, current_time) ==
    [segment_order |-> i,
     transport_type |-> edge.transport_type,
     from_station_id |-> edge.from_station_id,
     from_station_name |-> g.nodes[edge.from_station_id].station_name,
     to_station_id |-> edge.to_station_id,
     to_station_name |-> g.nodes[edge.to_station_id].station_name,
     line_id |-> edge.line_id,
     duration_minutes |-> edge.duration_minutes,
     cost |-> edge.cost,
     departure_time |-> current_time,
     arrival_time |-> current_time + edge.duration_minutes]

\* mutant: the fee of a transfer segment is left out of the total
AddSegmentCost_TrainOnly(total_cost, edge) ==
    IF edge.transport_type = "transfer" THEN total_cost ELSE total_cost + edge.cost

\* mutant: a fifth is taken off every segment cost
AddSegmentCost_Discounted(total_cost, edge) == total_cost + edge.cost - (edge.cost \div 5)

\* line 339: total_cost += edge.cost
AddSegmentCost(total_cost, edge) == total_cost + edge.cost

RECURSIVE ConstructLoop(_, _, _, _)
ConstructLoop(acc, path, i, g) ==
    IF i > Len(path) \/ acc.raised # "none" THEN acc
    ELSE LET edge == path[i]
         IN  IF edge.from_station_id \notin DOMAIN g.nodes
                \/ edge.to_station_id \notin DOMAIN g.nodes
             THEN [acc EXCEPT !.raised = "KeyError"]
             ELSE ConstructLoop(
                    [segments |-> Append(acc.segments, RouteSegment(i, edge, g, acc.current_time)),
                     current_time |-> acc.current_time + edge.duration_minutes,
                     total_cost |-> AddSegmentCost(acc.total_cost, edge),
                     total_duration |-> acc.total_duration + edge.duration_minutes,
                     total_transfers |-> IF edge.transport_type = "transfer"
                                         THEN acc.total_transfers + 1
                                         ELSE acc.total_transfers,
                     walking_time |-> IF edge.transport_type = "transfer"
                                      THEN acc.walking_time + edge.duration_minutes
                                      ELSE acc.walking_time,
                     lines_used |-> IF edge.line_id # None
                                    THEN acc.lines_used \cup {edge.line_id}
                                    ELSE acc.lines_used,
                     raised |-> "none"],
                    path, i + 1, g)

RouteSummary(acc) ==
    [total_duration_minutes |-> acc.total_duration,
     total_cost |-> acc.total_cost,
     total_transfers |-> acc.total_transfers,
     total_walking_time_minutes |-> acc.walking_time,
     departure_time |-> 0,
     arrival_time |-> acc.total_duration,
     lines_used |-> acc.lines_used]

\* an Optional[RouteOption] is <<>> (None) or <<route>>
_construct_route_option(g, path, start_id, end_id, optimization) ==
    LET acc == ConstructLoop(ConstructStart, path, 1, g)
        summary == RouteSummary(acc)
    IN  IF acc.raised # "none" THEN [route |-> <<>>, raised |-> acc.raised]
        ELSE [route |-> << [segments |-> acc.segments,
                            summary |-> summary,
                            optimization_score |->
                                _calculate_optimization_score(summary, optimization)] >>,
              raised |-> "none"]

\* mutant: the search without the guard of lines 205-206
_dijkstra_shortest_path_NoSameStationGuard(g, start_id, end_id, optimization, max_walking_time, max_transfers) ==
    LET s == SearchLoop(g, SearchStart(start_id), end_id, optimization,
                        max_walking_time, max_transfers)
    IN  IF s.found
        THEN _construct_route_option(g, s.path, start_id, end_id, optimization)
        ELSE [route |-> <<>>, raised |-> "none"]

_dijkstra_shortest_path(g, start_id, end_id, optimization, max_walking_time, max_transfers) ==
    IF start_id = end_id THEN [route |-> <<>>, raised |-> "none"]
    ELSE LET s == SearchLoop(g, SearchStart(start_id), end_id, optimization,
                             max_walking_time, max_transfers)
         IN  IF s.found
             THEN _construct_route_option(g, s.path, start_id, end_id, optimization)
             ELSE [route |-> <<>>, raised |-> "none"]

\* mutant: every candidate counts as different
_is_significantly_different_NoCheck(route, existing_routes) == TRUE

\* mutant: the candidate is compared with the primary route only
_is_significantly_different_PrimaryOnly(route, existing_routes) ==
    LET existing == existing_routes[1]
        time_diff == Abs(route.summary.total_duration_minutes
                         - existing.summary.total_duration_minutes)
        cost_diff == Abs(route.summary.total_cost - existing.summary.total_cost)
        transfer_diff == Abs(route.summary.total_transfers
                             - existing.summary.total_transfers)
    IN  ~(time_diff < SIGNIFICANT_DIFF /\ cost_diff < SIGNIFICANT_DIFF
          /\ transfer_diff = 0)

_is_significantly_different(route, existing_routes) ==
    \A k \in 1..Len(existing_routes) :
        LET existing == existing_routes[k]
            time_diff == Abs(route.summary.total_duration_minutes
                             - existing.summary.total_duration_minutes)
            cost_diff == Abs(route.summary.total_cost - existing.summary.total_cost)
            transfer_diff == Abs(route.summary.total_transfers
                                 - existing.summary.total_transfers)
        IN  ~(time_diff < SIGNIFICANT_DIFF /\ cost_diff < SIGNIFICANT_DIFF
              /\ transfer_diff = 0)

Optimizations == <<"time", "cost", "transfers">>

\* lines 171-189: the loop over the other optimization strategies
RECURSIVE AlternativesLoop(_, _, _, _)
AlternativesLoop(g, req, acc, alt_optimizations) ==
    IF alt_optimizations = <<>> \/ acc.raised # "none" THEN acc
    ELSE IF Len(acc.routes) >= MAX_ROUTES THEN acc
    ELSE LET alt == _dijkstra_shortest_path(g, req.from_station_id, req.to_station_id,
                                            Head(alt_optimizations),
                                            req.max_walking_time, req.max_transfers)
             acc1 == IF alt.raised # "none" THEN [acc EXCEPT !.raised = alt.raised]
                     ELSE IF alt.route # <<>>
                             /\ _is_significantly_different(alt.route[1], acc.routes)
                     THEN [acc EXCEPT !.routes = Append(acc.routes, alt.route[1])]
                     ELSE acc
         IN  AlternativesLoop(g, req, acc1, Tail(alt_optimizations))

\* line 232: the stations whose neighbours one search looks up, in order
SearchReads(g, req, optimization) ==
    IF req.from_station_id = req.to_station_id THEN <<>>
    ELSE SearchLoop(g, SearchStart(req.from_station_id), req.to_station_id,
                    optimization, req.max_walking_time, req.max_transfers).expanded

\* lines 171-189: the lookups of the searches for alternatives
RECURSIVE AlternativesReads(_, _, _, _)
AlternativesReads(g, req, acc, alt_optimizations) ==
    IF alt_optimizations = <<>> \/ acc.raised # "none" THEN <<>>
    ELSE IF Len(acc.routes) >= MAX_ROUTES THEN <<>>
    ELSE SearchReads(g, req, Head(alt_optimizations))
         \o AlternativesReads(g, req,
                              AlternativesLoop(g, req, acc, <<Head(alt_optimizations)>>),
                              Tail(alt_optimizations))

\* lines 151-191: every neighbour lookup of one calculate_route call
CalculateRouteReads(g, req) ==
    LET primary == _dijkstra_shortest_path(g, req.from_station_id, req.to_station_id,
                                           req.optimization,
                                           req.max_walking_time, req.max_transfers)
    IN  SearchReads(g, req, req.optimization)
        \o (IF primary.raised = "none" /\ primary.route # <<>>
                /\ InSeq(req.optimization, Optimizations)
            THEN AlternativesReads(g, req, [routes |-> primary.route, raised |-> "none"],
                                   SelectSeq(Optimizations, LAMBDA o : o # req.optimization))
            ELSE <<>>)

\* the graph object after the lookups of a call; the search and
\* _construct_route_option (lines 307-308) otherwise only read it
RECURSIVE GraphAfterReads(_, _)
GraphAfterReads(g, stations) ==
    IF stations = <<>> THEN g
    ELSE GraphAfterReads(get_neighbors_stored(g, Head(stations)), Tail(stations))

calculate_route(g, req) ==
    LET primary == _dijkstra_shortest_path(g, req.from_station_id, req.to_station_id,
                                           req.optimization,
                                           req.max_walking_time, req.max_transfers)
    IN  IF primary.raised # "none" THEN [routes |-> <<>>, raised |-> primary.raised]
        ELSE IF primary.route = <<>> THEN [routes |-> <<>>, raised |-> "none"]
        ELSE IF ~InSeq(req.optimization, Optimizations)
             THEN [routes |-> <<>>, raised |-> "ValueError"]
        ELSE AlternativesLoop(g, req, [routes |-> primary.route, raised |-> "none"],
                              SelectSeq(Optimizations, LAMBDA o : o # req.optimization))

\* RouteService.plan_route: both stations must exist in the stations table
plan_route(d, g, req) ==
    IF req.from_station_id \notin DOMAIN d.stations
       \/ req.to_station_id \notin DOMAIN d.stations
    THEN [routes |-> <<>>, raised |-> "none"]
    ELSE calculate_route(g, req)

\* the neighbour lookups of one RouteService.plan_route call
PlanRouteReads(d, g, req) ==
    IF req.from_station_id \notin DOMAIN d.stations
       \/ req.to_station_id \notin DOMAIN d.stations
    THEN <<>>
    ELSE CalculateRouteReads(g, req)

\* ---------------------------------------------------------------- requests
NoRequest ==
    [from_station_id |-> None, to_station_id |-> None, optimization |-> "time",
     max_walking_time |-> DEFAULT_MAX_WALKING_TIME, max_transfers |-> DEFAULT_MAX_TRANSFERS]

RequestStationIds == StationIds \cup {UnknownStationId}

MaxTransfersValues == {0, 1, 3}

MaxWalkingTimeValues == {2, 10}

RouteRequests ==
    [from_station_id : RequestStationIds, to_station_id : RequestStationIds,
     optimization : Range(Optimizations),
     max_walking_time : MaxWalkingTimeValues, max_transfers : MaxTransfersValues]

DefaultCapRequests ==
    [from_station_id : RequestStationIds, to_station_id : RequestStationIds,
     optimization : Range(Optimizations),
     max_walking_time : {DEFAULT_MAX_WALKING_TIME},
     max_transfers : {DEFAULT_MAX_TRANSFERS}]

\* what a call that has not been made has returned
NoResponse == [kind |-> "none"]

\* no ticket or booking service has been constructed
NoServices ==
    /\ _ticket_storage = <<>>
    /\ _validation_logs = <<>>
    /\ _booking_storage = <<>>
    /\ now = 0

Init ==
    /\ db \in Databases
    /\ graph = _build_network_graph(db)
    /\ request = NoRequest
    /\ routes = <<>>
    /\ raised = "none"
    /\ op = "idle"
    /\ route_cache = {}
    /\ response = NoResponse
    /\ NoServices

\* RouteCalculator.calculate_route(request)
CalculateRoute ==
    /\ op = "idle"
    /\ \E req \in RouteRequests :
         \E res \in {calculate_route(graph, req)} :
            /\ request' = req
            /\ routes' = res.routes
            /\ raised' = res.raised
            /\ op' = "calculate_route"
            /\ graph' = GraphAfterReads(graph, CalculateRouteReads(graph, req))
            /\ UNCHANGED <<serviceVars, db, route_cache, response>>

\* RouteService.plan_route(request), called with the schema's default caps
PlanRoute ==
    /\ op = "idle"
    /\ \E req \in DefaultCapRequests :
         \E res \in {plan_route(db, graph, req)} :
            /\ request' = req
            /\ routes' = res.routes
            /\ raised' = res.raised
            /\ op' = "plan_route"
            /\ graph' = GraphAfterReads(graph, PlanRouteReads(db, graph, req))
            /\ UNCHANGED <<serviceVars, db, route_cache, response>>

\* the caller takes the returned list; the calculator keeps nothing of a call
Return ==
    /\ op # "idle"
    /\ request' = NoRequest
    /\ routes' = <<>>
    /\ raised' = "none"
    /\ op' = "idle"
    /\ response' = NoResponse
    /\ UNCHANGED <<serviceVars, db, graph, route_cache>>

Next == CalculateRoute \/ PlanRoute \/ Return

Spec == Init /\ [][Next]_vars

\* ------------------------------------------- a graph with an interchange
\* A NetworkGraph in which a second line serves stations of the built graph:
\* the train edges of a hop of that line, added with add_edge in both
\* directions as lines 92-113 add them. Station has one line_id column, so
\* the tables cannot describe such a hop; the graph class and the search
\* take it as any other edge.
InterchangeDatabases ==
    {d \in Databases :
        /\ \A s \in StationIds : d.stations[s].name = s
        /\ Len(d.transfer_points) <= 1}

SecondLineHop(g, line, a, b) ==
    add_edge(add_edge(g, NetworkEdge(a, b, "train", TRAIN_DURATION,
                                     _get_base_fare(line, a, b), line)),
             NetworkEdge(b, a, "train", TRAIN_DURATION, _get_base_fare(line, b, a), line))

InterchangeInit ==
    /\ db \in InterchangeDatabases
    /\ \E line \in LineIds : \E p \in StationPairs :
          graph = SecondLineHop(_build_network_graph(db), line, p[1], p[2])
    /\ request = NoRequest
    /\ routes = <<>>
    /\ raised = "none"
    /\ op = "idle"
    /\ route_cache = {}
    /\ response = NoResponse
    /\ NoServices

InterchangeNext == CalculateRoute \/ Return

InterchangeSpec == InterchangeInit /\ [][InterchangeNext]_vars

\* ============================================================ fare engine
\* The tables FareCalculationService and RouteValidator read.  A row carries
\* the columns models.py declares for it; amounts are whole baht and the
\* discounts are chosen so that subtotal * discount / 100 is a whole number.
StationRow(id, line, status, zone) ==
    [id |-> id, line_id |-> line, name |-> id, status |-> status, zone_number |-> zone]

TransferPointRow(a, b, minutes, fee, active) ==
    [station_a_id |-> a, station_b_id |-> b, walking_time_minutes |-> minutes,
     transfer_fee |-> fee, is_active |-> active]

PassengerTypeRow(id, name, pct) ==
    [id |-> id, name |-> name, discount_percentage |-> pct]

FareRuleRow(id, route, ptype, price) ==
    [id |-> id, route_id |-> route, passenger_type_id |-> ptype, price |-> price]

\* stations 1, 2 on line 1 and stations 3, 4 on line 2, all in service
FareStations ==
    [s \in 1..4 |->
        CASE s = 1 -> StationRow(1, 1, "active", 1)
          [] s = 2 -> StationRow(2, 1, "active", 2)
          [] s = 3 -> StationRow(3, 2, "active", 3)
          [] s = 4 -> StationRow(4, 2, "active", None)]

FareTransferTables ==
    { << TransferPointRow(2, 3, 5, 10, TRUE) >>,
      << TransferPointRow(3, 2, 5, 10, TRUE) >>,
      << TransferPointRow(2, 3, 5, 10, TRUE), TransferPointRow(3, 2, 5, 20, TRUE) >>,
      << TransferPointRow(1, 2, 0, 0, TRUE), TransferPointRow(2, 3, 0, 20, TRUE) >>,
      << TransferPointRow(2, 3, 5, 10, FALSE) >> }

PassengerTypes ==
    << PassengerTypeRow(1, "adult", 0),
       PassengerTypeRow(2, "student", 20),
       PassengerTypeRow(3, "staff", 100) >>

UnknownPassengerTypeId == Len(PassengerTypes) + 1

PassengerTypeIds == {PassengerTypes[i].id : i \in 1..Len(PassengerTypes)}

\* the fare_rules table: empty, or one rule whose route id is also a line id
FareRuleTables == { <<>>, << FareRuleRow(1, 1, 1, 20) >> }

\* TrainLine.status: line 1 is in service, line 2 is not
FareLineStatus == [line \in LineIds |-> IF line = 1 THEN "active" ELSE "maintenance"]

FareDatabases ==
    { [stations |-> FareStations, train_lines |-> LineIds,
       train_line_status |-> FareLineStatus, transfer_points |-> tp,
       passenger_types |-> PassengerTypes, fare_rules |-> fr] :
      tp \in FareTransferTables, fr \in FareRuleTables }

\* an exception leaves a call with no value; a value is carried in a
\* sequence of length one
Raise(exception) == [raised |-> exception, value |-> <<>>]

Returns(v) == [raised |-> "none", value |-> <<v>>]

\* getattr on a mapped row: the columns of its class are its attributes
HasAttr(row, attribute) == attribute \in DOMAIN row

\* _load_fare_rules / _load_passenger_types: a dict keyed by a column, a
\* later row replacing an earlier one with the same key
RECURSIVE _load_fare_rules(_, _)
_load_fare_rules(cache, rules) ==
    IF rules = <<>> THEN cache
    ELSE _load_fare_rules(Put(cache, Head(rules).route_id, Head(rules)), Tail(rules))

RECURSIVE _load_passenger_types(_, _)
_load_passenger_types(cache, types) ==
    IF types = <<>> THEN cache
    ELSE _load_passenger_types(Put(cache, Head(types).id, Head(types)), Tail(types))

\* FareCalculationService(db): the two caches filled by __init__
FareCalculationService(d) ==
    [db |-> d,
     _fare_rules_cache |-> _load_fare_rules(<<>>, d.fare_rules),
     _passenger_types_cache |-> _load_passenger_types(<<>>, d.passenger_types)]

\* dict.get(key): <<>> for None
DictGet(cache, key) == IF key \in DOMAIN cache THEN <<cache[key]>> ELSE <<>>

\* passenger_type.discount_percentage if passenger_type else Decimal('0')
DiscountPercentage(self, passenger_type_id) ==
    LET passenger_type == DictGet(self._passenger_types_cache, passenger_type_id)
    IN  IF passenger_type # <<>> THEN passenger_type[1].discount_percentage ELSE 0

DEFAULT_BASE_FARE == 25

\* FareBreakdown.segment_type: Literal["train", "transfer"]
FareBreakdownSegmentTypes == {"train", "transfer"}

\* RouteSegment.transport_type: Literal["train", "walk", "transfer"]
RouteSegmentTransportTypes == {"train", "walk", "transfer"}

\* FareBreakdown(...): pydantic refuses a segment_type outside its Literal
FareBreakdown(segment_id, segment_type, base_fare, distance_fare, transfer_fee, passenger_discount, segment_total) ==
    IF segment_type \notin FareBreakdownSegmentTypes THEN Raise("ValidationError")
    ELSE Returns([segment_id |-> segment_id, segment_type |-> segment_type,
                  base_fare |-> base_fare, distance_fare |-> distance_fare,
                  transfer_fee |-> transfer_fee,
                  passenger_discount |-> passenger_discount,
                  segment_total |-> segment_total])

\* lines 111 and 247: subtotal * (discount_percentage / Decimal('100'))
DiscountAmount(subtotal, discount_percentage) ==
    (subtotal * discount_percentage) \div 100

\* lines 112 and 248: segment_total = subtotal - discount_amount
SegmentTotal(subtotal, discount_amount) == subtotal - discount_amount

\* _calculate_train_fare.  A rule found for the line is read at line 102 as
\* fare_rule.base_fare: FareRule (models.py 254-266) has the columns id,
\* route_id, passenger_type_id, price, valid_from and valid_to only, so the
\* read raises AttributeError and lines 103-123 and 125-218 (the zone and
\* distance components) are not reached with a rule.
_calculate_train_fare(self, segment, passenger_type_id, segment_id) ==
    LET fare_rule == DictGet(self._fare_rules_cache, segment.line_id)
    IN  IF fare_rule # <<>>
        THEN Raise("AttributeError")
        ELSE LET base_fare == DEFAULT_BASE_FARE
                 distance_fare == 0
                 discount_percentage == DiscountPercentage(self, passenger_type_id)
                 subtotal == base_fare + distance_fare
                 discount_amount == DiscountAmount(subtotal, discount_percentage)
                 segment_total == SegmentTotal(subtotal, discount_amount)
             IN  FareBreakdown(segment_id, "train", base_fare, distance_fare, 0,
                               discount_amount, segment_total)

\* query(TransferPoint).filter(station_a_id == a, station_b_id == b).first()
FirstTransferPoint(d, a, b) ==
    LET found == SelectSeq(d.transfer_points,
                           LAMBDA t : t.station_a_id = a /\ t.station_b_id = b)
    IN  IF found = <<>> THEN <<>> ELSE <<found[1]>>

\* mutant: the record is looked up in the direction of travel only
TransferRecord_ForwardOnly(d, segment) ==
    FirstTransferPoint(d, segment.from_station_id, segment.to_station_id)

\* lines 229-239: the record (from, to), else the record (to, from)
TransferRecord(d, segment) ==
    LET transfer == FirstTransferPoint(d, segment.from_station_id, segment.to_station_id)
    IN  IF transfer = <<>>
        THEN FirstTransferPoint(d, segment.to_station_id, segment.from_station_id)
        ELSE transfer

_calculate_transfer_fare(self, segment, passenger_type_id, segment_id) ==
    LET transfer == TransferRecord(self.db, segment)
        transfer_fee == IF transfer # <<>> THEN transfer[1].transfer_fee ELSE 0
        discount_percentage == DiscountPercentage(self, passenger_type_id)
        discount_amount == DiscountAmount(transfer_fee, discount_percentage)
        segment_total == SegmentTotal(transfer_fee, discount_amount)
    IN  FareBreakdown(segment_id, "transfer", 0, 0, transfer_fee,
                      discount_amount, segment_total)

_calculate_segment_fare(self, segment, passenger_type_id, segment_id) ==
    IF segment.transport_type = "train"
    THEN _calculate_train_fare(self, segment, passenger_type_id, segment_id)
    ELSE IF segment.transport_type = "transfer"
    THEN _calculate_transfer_fare(self, segment, passenger_type_id, segment_id)
    ELSE FareBreakdown(segment_id, segment.transport_type, 0, 0, 0, 0, 0)

\* passenger_type.type_name if passenger_type else "Adult": PassengerType
\* (models.py 51-63) names the column name, not type_name
PassengerTypeLabel(self, passenger_type_id) ==
    LET passenger_type == DictGet(self._passenger_types_cache, passenger_type_id)
    IN  IF passenger_type = <<>> THEN Returns("Adult")
        ELSE IF HasAttr(passenger_type[1], "type_name")
        THEN Returns(passenger_type[1].type_name)
        ELSE Raise("AttributeError")

FareCalculationResponse(total_fare, passenger_type, discount_percentage, breakdown) ==
    [total_fare |-> total_fare, passenger_type |-> passenger_type,
     discount_percentage |-> discount_percentage, breakdown |-> breakdown,
     currency |-> "THB"]

FareStart == [breakdown |-> <<>>, total_fare |-> 0, raised |-> "none"]

\* mutant: only train fares are added to the total
AddSegmentTotal_TrainOnly(total_fare, fare_detail) ==
    IF fare_detail.segment_type = "train" THEN total_fare + fare_detail.segment_total
    ELSE total_fare

\* lines 52 and 292: total_fare += fare_detail.segment_total
AddSegmentTotal(total_fare, fare_detail) == total_fare + fare_detail.segment_total

\* lines 45-53: the loop over route.segments
RECURSIVE RouteFareLoop(_, _, _, _, _)
RouteFareLoop(self, segments, passenger_type_id, segment_id, acc) ==
    IF segments = <<>> \/ acc.raised # "none" THEN acc
    ELSE IF Head(segments).transport_type \in {"train", "transfer"}
    THEN LET fare_detail == _calculate_segment_fare(self, Head(segments),
                                                    passenger_type_id, segment_id)
         IN  IF fare_detail.raised # "none"
             THEN [acc EXCEPT !.raised = fare_detail.raised]
             ELSE RouteFareLoop(self, Tail(segments), passenger_type_id, segment_id + 1,
                    [breakdown |-> Append(acc.breakdown, fare_detail.value[1]),
                     total_fare |-> AddSegmentTotal(acc.total_fare, fare_detail.value[1]),
                     raised |-> "none"])
    ELSE RouteFareLoop(self, Tail(segments), passenger_type_id, segment_id, acc)

\* lines 55-61 and 294-300: the response, once the loop has ended
FareResponseOf(self, passenger_type_id, acc) ==
    LET label == PassengerTypeLabel(self, passenger_type_id)
    IN  IF acc.raised # "none" THEN Raise(acc.raised)
        ELSE IF label.raised # "none" THEN Raise(label.raised)
        ELSE Returns(FareCalculationResponse(acc.total_fare, label.value[1],
                                             DiscountPercentage(self, passenger_type_id),
                                             acc.breakdown))

calculate_route_fare(self, route, passenger_type_id) ==
    FareResponseOf(self, passenger_type_id,
                   RouteFareLoop(self, route.segments, passenger_type_id, 1, FareStart))

\* dict.get(key, default)
GetOr(segment_data, key, default) ==
    IF key \in DOMAIN segment_data THEN segment_data[key] ELSE default

\* lines 275-288: RouteSegment(...) from a dict of the request; a missing
\* station id is a KeyError, a transport_type outside the Literal is refused
\* by pydantic, a distance_km that is absent or falsy becomes None
RouteSegmentFromDict(i, segment_data) ==
    IF "from_station_id" \notin DOMAIN segment_data
       \/ "to_station_id" \notin DOMAIN segment_data
    THEN Raise("KeyError")
    ELSE IF GetOr(segment_data, "transport_type", "train") \notin RouteSegmentTransportTypes
    THEN Raise("ValidationError")
    ELSE Returns([segment_order |-> i,
                  transport_type |-> GetOr(segment_data, "transport_type", "train"),
                  from_station_id |-> segment_data.from_station_id,
                  to_station_id |-> segment_data.to_station_id,
                  line_id |-> GetOr(segment_data, "line_id", None),
                  duration_minutes |-> GetOr(segment_data, "duration_minutes", 0),
                  distance_km |-> GetOr(segment_data, "distance_km", None),
                  cost |-> GetOr(segment_data, "cost", 0)])

\* lines 273-292: the loop over request.route_segments
RECURSIVE RequestFareLoop(_, _, _, _, _)
RequestFareLoop(self, route_segments, passenger_type_id, i, acc) ==
    IF i > Len(route_segments) \/ acc.raised # "none" THEN acc
    ELSE LET segment == RouteSegmentFromDict(i, route_segments[i])
             fare_detail == _calculate_segment_fare(self, segment.value[1],
                                                    passenger_type_id, i)
         IN  IF segment.raised # "none" THEN [acc EXCEPT !.raised = segment.raised]
             ELSE IF fare_detail.raised # "none"
             THEN [acc EXCEPT !.raised = fare_detail.raised]
             ELSE RequestFareLoop(self, route_segments, passenger_type_id, i + 1,
                    [breakdown |-> Append(acc.breakdown, fare_detail.value[1]),
                     total_fare |-> AddSegmentTotal(acc.total_fare, fare_detail.value[1]),
                     raised |-> "none"])

calculate_fare_from_request(self, fare_request) ==
    FareResponseOf(self, fare_request.passenger_type_id,
                   RequestFareLoop(self, fare_request.route_segments,
                                   fare_request.passenger_type_id, 1, FareStart))

\* Decimal / Decimal: a zero divisor signals DivisionByZero, or
\* InvalidOperation when the dividend is zero too; a quotient is kept as the
\* pair (dividend, divisor)
DecimalDivide(x, y) ==
    IF y = 0 THEN (IF x = 0 THEN Raise("InvalidOperation") ELSE Raise("DivisionByZero"))
    ELSE Returns(<<x, y>>)

\* lines 311-324: the loop over the routes
RECURSIVE CompareLoop(_, _, _, _, _)
CompareLoop(self, cached_routes, passenger_type_id, i, acc) ==
    IF i > Len(cached_routes) \/ acc.raised # "none" THEN acc
    ELSE LET route == cached_routes[i]
             fare_response == calculate_route_fare(self, route, passenger_type_id)
             fare_per_minute == DecimalDivide(fare_response.value[1].total_fare,
                                              route.summary.total_duration_minutes)
         IN  IF fare_response.raised # "none"
             THEN [acc EXCEPT !.raised = fare_response.raised]
             ELSE IF fare_per_minute.raised # "none"
             THEN [acc EXCEPT !.raised = fare_per_minute.raised]
             ELSE CompareLoop(self, cached_routes, passenger_type_id, i + 1,
                    [comparisons |->
                        Append(acc.comparisons,
                               [route_index |-> i - 1,
                                route |-> route,
                                total_fare |-> fare_response.value[1].total_fare,
                                total_duration |-> route.summary.total_duration_minutes,
                                total_transfers |-> route.summary.total_transfers,
                                fare_per_minute |-> fare_per_minute.value[1],
                                lines_used |-> route.summary.lines_used,
                                breakdown |-> fare_response.value[1].breakdown]),
                     raised |-> "none"])

\* list.sort(key=total_fare): stable, ascending
RECURSIVE InsertByFare(_, _)
InsertByFare(sorted, x) ==
    IF sorted = <<>> THEN <<x>>
    ELSE IF sorted[Len(sorted)].total_fare <= x.total_fare THEN Append(sorted, x)
    ELSE Append(InsertByFare(SubSeq(sorted, 1, Len(sorted) - 1), x), sorted[Len(sorted)])

RECURSIVE SortByFare(_)
SortByFare(comparisons) ==
    IF comparisons = <<>> THEN <<>>
    ELSE InsertByFare(SortByFare(SubSeq(comparisons, 1, Len(comparisons) - 1)),
                      comparisons[Len(comparisons)])

compare_route_fares(self, cached_routes, passenger_type_id) ==
    LET acc == CompareLoop(self, cached_routes, passenger_type_id, 1,
                           [comparisons |-> <<>>, raised |-> "none"])
    IN  IF acc.raised # "none" THEN Raise(acc.raised)
        ELSE Returns(SortByFare(acc.comparisons))

\* get_discount_info: the default for an unknown type; for a known type the
\* dict is built from type_name and description, which PassengerType lacks
get_discount_info(self, passenger_type_id) ==
    LET passenger_type == DictGet(self._passenger_types_cache, passenger_type_id)
    IN  IF passenger_type = <<>>
        THEN Returns([passenger_type |-> "Adult", discount_percentage |-> 0,
                      description |-> "No discount available"])
        ELSE IF HasAttr(passenger_type[1], "type_name")
                /\ HasAttr(passenger_type[1], "description")
        THEN Returns([passenger_type |-> passenger_type[1].type_name,
                      discount_percentage |-> passenger_type[1].discount_percentage,
                      description |-> passenger_type[1].description])
        ELSE Raise("AttributeError")

\* ============================================================== validator
PAST_LIMIT_HOURS == 1
FUTURE_LIMIT_DAYS == 30
HOURS_PER_DAY == 24
MIN_WALKING_TIME == 1
MAX_WALKING_TIME == 60
MIN_TRANSFERS == 0
MAX_TRANSFERS == 5

RouteValidationError(error_code, field) == [error_code |-> error_code, field |-> field]

\* query(Station).filter(Station.id == id).first()
StationById(d, id) == IF id \in DOMAIN d.stations THEN <<d.stations[id]>> ELSE <<>>

\* query(PassengerType).filter(PassengerType.id == id).first()
PassengerTypeById(d, id) ==
    LET found == SelectSeq(d.passenger_types, LAMBDA t : t.id = id)
    IN  IF found = <<>> THEN <<>> ELSE <<found[1]>>

\* lines 26-56: a station that is missing, or present and not "active"
StationErrors(d, id, missing_code, field) ==
    LET station == StationById(d, id)
    IN  IF station = <<>> THEN <<RouteValidationError(missing_code, field)>>
        ELSE IF station[1].status # "active"
        THEN <<RouteValidationError("STATION_INACTIVE", field)>>
        ELSE <<>>

\* lines 72-75: a datetime is (wall clock in hours, tzinfo); replace(tzinfo=
\* None) keeps the wall clock and drops the offset
NaiveDepartureTime(departure_time) == departure_time.wall

\* line 79
DepartureTooEarly(departure_time, current_time) ==
    departure_time < current_time - PAST_LIMIT_HOURS

\* lines 87-88
DepartureTooLate(departure_time, current_time) ==
    departure_time > current_time + FUTURE_LIMIT_DAYS * HOURS_PER_DAY

\* lines 70-93; request.departure_time is <<>> (None) or <<datetime>>
DepartureErrors(req, current_time) ==
    IF req.departure_time = <<>> THEN <<>>
    ELSE LET departure_time == NaiveDepartureTime(req.departure_time[1])
         IN  (IF DepartureTooEarly(departure_time, current_time)
              THEN <<RouteValidationError("PAST_DEPARTURE_TIME", "departure_time")>>
              ELSE <<>>)
             \o (IF DepartureTooLate(departure_time, current_time)
                 THEN <<RouteValidationError("FUTURE_DEPARTURE_TIME", "departure_time")>>
                 ELSE <<>>)

\* lines 96-120
ConstraintErrors(req) ==
    (IF req.max_walking_time < MIN_WALKING_TIME
     THEN <<RouteValidationError("INVALID_WALKING_TIME", "max_walking_time")>>
     ELSE IF req.max_walking_time > MAX_WALKING_TIME
     THEN <<RouteValidationError("EXCESSIVE_WALKING_TIME", "max_walking_time")>>
     ELSE <<>>)
    \o (IF req.max_transfers < MIN_TRANSFERS
        THEN <<RouteValidationError("INVALID_TRANSFERS", "max_transfers")>>
        ELSE IF req.max_transfers > MAX_TRANSFERS
        THEN <<RouteValidationError("EXCESSIVE_TRANSFERS", "max_transfers")>>
        ELSE <<>>)

\* mutant: the checks stop at the first error
validate_route_request_FirstErrorOnly(d, req, current_time) ==
    LET errors ==
            (IF req.from_station_id = req.to_station_id
             THEN <<RouteValidationError("SAME_STATION", "to_station_id")>> ELSE <<>>)
            \o StationErrors(d, req.from_station_id, "INVALID_FROM_STATION", "from_station_id")
            \o StationErrors(d, req.to_station_id, "INVALID_TO_STATION", "to_station_id")
            \o (IF PassengerTypeById(d, req.passenger_type_id) = <<>>
                THEN <<RouteValidationError("INVALID_PASSENGER_TYPE", "passenger_type_id")>>
                ELSE <<>>)
            \o DepartureErrors(req, current_time)
            \o ConstraintErrors(req)
            \o (IF ~InSeq(req.optimization, Optimizations)
                THEN <<RouteValidationError("INVALID_OPTIMIZATION", "optimization")>>
                ELSE <<>>)
    IN  IF errors = <<>> THEN <<>> ELSE <<errors[1]>>

\* RouteValidator.validate_route_request; current_time is datetime.now()
validate_route_request(d, req, current_time) ==
    (IF req.from_station_id = req.to_station_id
     THEN <<RouteValidationError("SAME_STATION", "to_station_id")>> ELSE <<>>)
    \o StationErrors(d, req.from_station_id, "INVALID_FROM_STATION", "from_station_id")
    \o StationErrors(d, req.to_station_id, "INVALID_TO_STATION", "to_station_id")
    \o (IF PassengerTypeById(d, req.passenger_type_id) = <<>>
        THEN <<RouteValidationError("INVALID_PASSENGER_TYPE", "passenger_type_id")>>
        ELSE <<>>)
    \o DepartureErrors(req, current_time)
    \o ConstraintErrors(req)
    \o (IF ~InSeq(req.optimization, Optimizations)
        THEN <<RouteValidationError("INVALID_OPTIMIZATION", "optimization")>>
        ELSE <<>>)

\* the rows of the SQL view station_networks (lines 238-251): two stations
\* of one line (a NULL line_id equals nothing), or an active transfer point
\* in either direction
StationNetworks(d) ==
    { <<a, b>> \in (DOMAIN d.stations) \X (DOMAIN d.stations) :
        /\ a # b
        /\ d.stations[a].line_id # None
        /\ d.stations[a].line_id = d.stations[b].line_id }
    \cup { <<d.transfer_points[i].station_a_id, d.transfer_points[i].station_b_id>> :
             i \in {j \in 1..Len(d.transfer_points) : d.transfer_points[j].is_active} }
    \cup { <<d.transfer_points[i].station_b_id, d.transfer_points[i].station_a_id>> :
             i \in {j \in 1..Len(d.transfer_points) : d.transfer_points[j].is_active} }

\* validate_station_connectivity: TRUE when potentially connected
validate_station_connectivity(d, from_station_id, to_station_id) ==
    LET from_station == StationById(d, from_station_id)
        to_station == StationById(d, to_station_id)
    IN  IF from_station = <<>> \/ to_station = <<>> THEN FALSE
        ELSE IF from_station[1].line_id = to_station[1].line_id THEN TRUE
        ELSE \E sn1 \in StationNetworks(d), sn2 \in StationNetworks(d) :
                /\ sn1[2] = sn2[1]
                /\ sn1[1] = from_station_id
                /\ sn2[2] = to_station_id

LOW_WALKING_TIME == 5

\* the warnings of validate_route_feasibility for a feasible request (lines
\* 325-346); check_service_disruptions returns no disruption
feasibility_warnings(req) ==
    IF req.max_walking_time < LOW_WALKING_TIME /\ req.max_transfers > 0
    THEN <<"Very low walking time limit may prevent finding routes with transfers">>
    ELSE <<>>

\* validate_route_feasibility: is_feasible
validate_route_feasibility(d, req) ==
    IF ~validate_station_connectivity(d, req.from_station_id, req.to_station_id)
    THEN FALSE
    ELSE IF req.max_transfers = 0
            /\ StationById(d, req.from_station_id) # <<>>
            /\ StationById(d, req.to_station_id) # <<>>
            /\ d.stations[req.from_station_id].line_id # d.stations[req.to_station_id].line_id
    THEN FALSE
    ELSE TRUE

\* ================================================================= router
\* the detail of an HTTPException: a message, with the error records or the
\* warnings where the endpoint sends them
Detail(message, items) == [message |-> message, items |-> items]

HTTPException(status_code, detail) ==
    [raised |-> "HTTPException", status_code |-> status_code, detail |-> detail,
     value |-> <<>>]

\* POST /plan (router.py 21-89), up to the caching of the routes
\* RouteResponse(request, routes, total_options, calculation_time_ms); the
\* time measured is not kept
RouteResponse(req, planned_routes) ==
    [request |-> req, routes |-> planned_routes, total_options |-> Len(planned_routes)]

\* mutant: the search runs without the feasibility check
router_plan_route_NoFeasibilityCheck(d, g, req, current_time) ==
    LET validation_errors == validate_route_request(d, req, current_time)
        planned == plan_route(d, g, req)
    IN  IF validation_errors # <<>> THEN HTTPException(400, Detail("Route request validation failed", validation_errors))
        ELSE IF planned.raised # "none" THEN Raise(planned.raised)
        ELSE IF planned.routes = <<>> THEN HTTPException(404, Detail("No routes found", <<>>))
        ELSE Returns(RouteResponse(req, planned.routes))

router_plan_route(d, g, req, current_time) ==
    LET validation_errors == validate_route_request(d, req, current_time)
        planned == plan_route(d, g, req)
    IN  IF validation_errors # <<>> THEN HTTPException(400, Detail("Route request validation failed", validation_errors))
        ELSE IF ~validate_route_feasibility(d, req)
        THEN HTTPException(400, Detail("Route is not feasible", <<>>))
        ELSE IF planned.raised # "none" THEN Raise(planned.raised)
        ELSE IF planned.routes = <<>> THEN HTTPException(404, Detail("No routes found", <<>>))
        ELSE Returns(RouteResponse(req, planned.routes))

\* POST /{route_id}/fare (router.py 200-219); cached is <<>> for an id that
\* is not in route_cache, else <<route>>
router_calculate_route_fare(d, cached, passenger_type_id) ==
    IF cached = <<>> THEN HTTPException(404, Detail("Route not found", <<>>))
    ELSE calculate_route_fare(FareCalculationService(d), cached[1], passenger_type_id)

\* POST /fare-calculate (router.py 107-123)
router_calculate_fare(d, fare_request) ==
    IF fare_request.route_segments = <<>>
    THEN HTTPException(400, Detail("Route segments are required", <<>>))
    ELSE calculate_fare_from_request(FareCalculationService(d), fare_request)

MAX_COMPARED_ROUTES == 10

\* POST /compare-fares (router.py 221-265); lookups holds, for every id of
\* the request, <<>> or the cached <<route>>
router_compare_route_fares(d, lookups, passenger_type_id) ==
    IF lookups = <<>> THEN HTTPException(400, Detail("At least one route ID is required", <<>>))
    ELSE IF Len(lookups) > MAX_COMPARED_ROUTES
    THEN HTTPException(400, Detail("Cannot compare more than 10 routes at once", <<>>))
    ELSE IF \E i \in 1..Len(lookups) : lookups[i] = <<>>
    THEN HTTPException(404, Detail("Routes not found", <<>>))
    ELSE LET cached_routes == [i \in 1..Len(lookups) |-> lookups[i][1]]
             comparisons == compare_route_fares(FareCalculationService(d),
                                                cached_routes, passenger_type_id)
         IN  IF comparisons.raised # "none" THEN Raise(comparisons.raised)
             ELSE Returns([passenger_type_id |-> passenger_type_id,
                           total_routes |-> Len(cached_routes),
                           comparisons |-> comparisons.value[1]])

\* mutant: the cache keeps the routes of the latest call only
CacheRoutes_LatestOnly(cache, returned_routes) ==
    IF returned_routes = <<>> THEN cache ELSE Range(returned_routes)

\* router.py 72-73 and 195-196: route_cache[route.route_id] = route for
\* every returned route; a route carries a fresh uuid4 id and stands for its
\* own key
CacheRoutes(cache, returned_routes) == cache \cup Range(returned_routes)

\* GET /{route_id}/details (router.py 91-105); cached as above
router_get_route_details(cached) ==
    IF cached = <<>> THEN HTTPException(404, Detail("Route not found", <<>>))
    ELSE Returns(cached[1])

\* ------------------------------------------------ GET /alternatives
MIN_ALTERNATIVES == 1
MAX_ALTERNATIVES == 10
PREFERRED_LINE_BONUS == 100

\* RouteRequest(from_station_id, to_station_id, departure_time,
\* passenger_type_id) with the defaults of the schema for the other fields
BaseRouteRequest(req) ==
    [from_station_id |-> req.from_station_id, to_station_id |-> req.to_station_id,
     departure_time |-> req.departure_time,
     passenger_type_id |-> req.passenger_type_id,
     optimization |-> "time",
     max_walking_time |-> DEFAULT_MAX_WALKING_TIME,
     max_transfers |-> DEFAULT_MAX_TRANSFERS]

\* validation.py 164-195: one error for every listed line that is missing
\* or not active
RECURSIVE LineErrors(_, _, _, _, _)
LineErrors(d, line_ids, missing_code, inactive_code, field) ==
    IF line_ids = <<>> THEN <<>>
    ELSE (IF Head(line_ids) \notin d.train_lines
          THEN <<RouteValidationError(missing_code, field)>>
          ELSE IF d.train_line_status[Head(line_ids)] # "active"
          THEN <<RouteValidationError(inactive_code, field)>>
          ELSE <<>>)
         \o LineErrors(d, Tail(line_ids), missing_code, inactive_code, field)

\* validation.py 133-208
validate_alternatives_request(d, req, current_time) ==
    validate_route_request(d, BaseRouteRequest(req), current_time)
    \o (IF req.max_alternatives < MIN_ALTERNATIVES
        THEN <<RouteValidationError("INVALID_MAX_ALTERNATIVES", "max_alternatives")>>
        ELSE IF req.max_alternatives > MAX_ALTERNATIVES
        THEN <<RouteValidationError("EXCESSIVE_ALTERNATIVES", "max_alternatives")>>
        ELSE <<>>)
    \o LineErrors(d, req.avoid_lines, "INVALID_AVOID_LINE", "INACTIVE_AVOID_LINE",
                  "avoid_lines")
    \o LineErrors(d, req.prefer_lines, "INVALID_PREFER_LINE", "INACTIVE_PREFER_LINE",
                  "prefer_lines")
    \o (IF Range(req.avoid_lines) \cap Range(req.prefer_lines) # {}
        THEN <<RouteValidationError("CONFLICTING_LINE_PREFERENCES", "prefer_lines")>>
        ELSE <<>>)

UsesLine(route, line_ids) ==
    \E i \in 1..Len(route.segments) : InSeq(route.segments[i].line_id, line_ids)

\* service.py 460-471
_filter_avoided_lines(planned_routes, avoid_lines) ==
    SelectSeq(planned_routes, LAMBDA route : ~UsesLine(route, avoid_lines))

\* sorted(routes, key = optimization_score, reverse = True): equal scores
\* keep their order
RECURSIVE InsertByScore(_, _)
InsertByScore(sorted, x) ==
    IF sorted = <<>> THEN <<x>>
    ELSE IF sorted[Len(sorted)].optimization_score >= x.optimization_score
    THEN Append(sorted, x)
    ELSE Append(InsertByScore(SubSeq(sorted, 1, Len(sorted) - 1), x), sorted[Len(sorted)])

RECURSIVE SortByScore(_)
SortByScore(planned_routes) ==
    IF planned_routes = <<>> THEN <<>>
    ELSE InsertByScore(SortByScore(SubSeq(planned_routes, 1, Len(planned_routes) - 1)),
                       planned_routes[Len(planned_routes)])

\* service.py 473-483
_boost_preferred_lines(planned_routes, prefer_lines) ==
    SortByScore([i \in 1..Len(planned_routes) |->
                    IF UsesLine(planned_routes[i], prefer_lines)
                    THEN [planned_routes[i] EXCEPT
                            !.optimization_score = @ + PREFERRED_LINE_BONUS]
                    ELSE planned_routes[i]])

\* alternatives[:max_alternatives]
Take(planned_routes, max_alternatives) ==
    SubSeq(planned_routes, 1,
           IF max_alternatives < Len(planned_routes) THEN max_alternatives
           ELSE Len(planned_routes))

\* service.py 448-458: the routes found, without the avoided lines, the
\* preferred lines first, cut to max_alternatives
FilterAndRank(planned_routes, req) ==
    LET kept == IF req.avoid_lines # <<>>
                THEN _filter_avoided_lines(planned_routes, req.avoid_lines)
                ELSE planned_routes
    IN  Take(IF req.prefer_lines # <<>>
             THEN _boost_preferred_lines(kept, req.prefer_lines)
             ELSE kept,
             req.max_alternatives)

AlternativesOf(found, req) ==
    IF found.raised # "none" THEN [routes |-> <<>>, raised |-> found.raised]
    ELSE [routes |-> FilterAndRank(found.routes, req), raised |-> "none"]

\* RouteService.get_route_alternatives (service.py 438-458)
get_route_alternatives(g, req) ==
    AlternativesOf(calculate_route(g, BaseRouteRequest(req)), req)

\* [int(x.strip()) for x in text.split(",")] on the texts of the model; the
\* empty text stands for a parameter that was not sent
LineIdTexts == {"", "1", "2", "3", "x"}

ParseLineIds(text) ==
    CASE text = "" -> [raised |-> "none", ids |-> <<>>]
      [] text = "1" -> [raised |-> "none", ids |-> <<1>>]
      [] text = "2" -> [raised |-> "none", ids |-> <<2>>]
      [] text = "3" -> [raised |-> "none", ids |-> <<3>>]
      [] OTHER -> [raised |-> "ValueError", ids |-> <<>>]

\* router.py 140-198: what the handler answers, given the parsed line lists,
\* the errors of the validation and the result of the service
AlternativesResponse(avoid, prefer, validation_errors, alternatives) ==
    IF avoid.raised # "none"
    THEN HTTPException(400, Detail("Invalid avoid_lines format", <<>>))
    ELSE IF prefer.raised # "none"
    THEN HTTPException(400, Detail("Invalid prefer_lines format", <<>>))
    ELSE IF validation_errors # <<>>
    THEN HTTPException(400, Detail("Route alternatives request validation failed",
                                   validation_errors))
    ELSE IF alternatives.raised # "none" THEN Raise(alternatives.raised)
    ELSE Returns([alternatives |-> alternatives.routes])

\* GET /alternatives (router.py 125-198), up to the caching of the routes;
\* the list returned is carried in a record
router_get_route_alternatives(d, g, query, current_time) ==
    LET avoid == ParseLineIds(query.avoid_lines)
        prefer == ParseLineIds(query.prefer_lines)
        req == [from_station_id |-> query.from_station_id,
                to_station_id |-> query.to_station_id,
                departure_time |-> query.departure_time,
                passenger_type_id |-> query.passenger_type_id,
                max_alternatives |-> query.max_alternatives,
                avoid_lines |-> avoid.ids, prefer_lines |-> prefer.ids]
    IN  AlternativesResponse(avoid, prefer,
                             validate_alternatives_request(d, req, current_time),
                             get_route_alternatives(g, req))

\* --------------------------------------------------- the calls of FareSpec
MaxCachedRoutes == 2
MaxComparedRoutes == 2
MaxRouteSegments == 2

AnyPassengerTypeIds == PassengerTypeIds \cup {UnknownPassengerTypeId}

ClockValues == {100}

PlanRequests ==
    [from_station_id : {1, 2}, to_station_id : {2, 3, 4, 5},
     departure_time : {<<>>},
     passenger_type_id : {1, 2},
     optimization : Range(Optimizations),
     max_walking_time : {LOW_WALKING_TIME - 1, DEFAULT_MAX_WALKING_TIME},
     max_transfers : {0, DEFAULT_MAX_TRANSFERS}]

\* the dicts of FareCalculationRequest.route_segments
SegmentDicts ==
    { [transport_type |-> "train", from_station_id |-> 1, to_station_id |-> 2,
       line_id |-> 1, distance_km |-> 8],
      [transport_type |-> "train", from_station_id |-> 1, to_station_id |-> 3,
       line_id |-> 1],
      [transport_type |-> "train", from_station_id |-> 3, to_station_id |-> 4,
       line_id |-> 2],
      [from_station_id |-> 1, to_station_id |-> 2],
      [transport_type |-> "transfer", from_station_id |-> 2, to_station_id |-> 3],
      [transport_type |-> "transfer", from_station_id |-> 3, to_station_id |-> 2],
      [transport_type |-> "transfer", from_station_id |-> 1, to_station_id |-> 4],
      [transport_type |-> "walk", from_station_id |-> 2, to_station_id |-> 3] }

FareCalculationRequests ==
    [route_segments : UNION {[1..n -> SegmentDicts] : n \in 0..MaxRouteSegments},
     passenger_type_id : AnyPassengerTypeIds]

\* the RouteSegment objects _calculate_segment_fare is called with
RouteSegments == {RouteSegmentFromDict(1, sd).value[1] : sd \in SegmentDicts}

\* the lists of route ids of a comparison: ids of cached routes, or one id
\* that is not cached
CompareLookups ==
    UNION {[1..n -> {<<r>> : r \in route_cache}] : n \in 0..MaxComparedRoutes}
    \cup {<< <<>> >>}
    \cup {[i \in 1..(MAX_COMPARED_ROUTES + 1) |-> <<>>]}

\* the query parameters of GET /alternatives
AlternativesQueries ==
    [from_station_id : {1}, to_station_id : {2, 3, 5},
     departure_time : {<<>>},
     passenger_type_id : {1},
     max_alternatives : {MIN_ALTERNATIVES, 5},
     avoid_lines : LineIdTexts,
     prefer_lines : {"", "1", "x"}]

FareInit ==
    /\ db \in FareDatabases
    /\ graph = _build_network_graph(db)
    /\ request = NoRequest
    /\ routes = <<>>
    /\ raised = "none"
    /\ op = "idle"
    /\ route_cache = {}
    /\ response = NoResponse
    /\ NoServices

\* POST /plan: the routes found are kept in route_cache (lines 72-73)
RouterPlanRoute ==
    /\ op = "idle"
    /\ \E req \in PlanRequests, current_time \in ClockValues :
         \E res \in {router_plan_route(db, graph, req, current_time)} :
            /\ request' = req
            /\ routes' = IF res.raised = "none" THEN res.value[1].routes ELSE <<>>
            /\ raised' = res.raised
            /\ response' = res
            /\ route_cache' = CacheRoutes(route_cache, routes')
            /\ Cardinality(route_cache') <= MaxCachedRoutes
            /\ op' = "plan_route"
            /\ UNCHANGED <<serviceVars, db, graph>>

\* GET /alternatives: the routes returned are kept in route_cache (194-196)
RouterGetRouteAlternatives ==
    /\ op = "idle"
    /\ \E query \in AlternativesQueries, current_time \in ClockValues :
         \E res \in {router_get_route_alternatives(db, graph, query, current_time)} :
            /\ request' = query
            /\ routes' = IF res.raised = "none" THEN res.value[1].alternatives ELSE <<>>
            /\ raised' = res.raised
            /\ response' = res
            /\ route_cache' = CacheRoutes(route_cache, routes')
            /\ Cardinality(route_cache') <= MaxCachedRoutes
            /\ op' = "get_route_alternatives"
            /\ UNCHANGED <<serviceVars, db, graph>>

\* GET /{route_id}/details
RouterGetRouteDetails ==
    /\ op = "idle"
    /\ \E cached \in {<<r>> : r \in route_cache} \cup {<<>>} :
         \E res \in {router_get_route_details(cached)} :
            /\ request' = [route |-> cached]
            /\ raised' = res.raised
            /\ response' = res
            /\ op' = "get_route_details"
            /\ UNCHANGED <<serviceVars, db, graph, routes, route_cache>>

\* RouteService(db).plan_route(request), the request naming a passenger type
ServicePlanRoute ==
    /\ op = "idle"
    /\ \E req \in PlanRequests :
         \E res \in {plan_route(db, graph, req)} :
            /\ request' = req
            /\ routes' = res.routes
            /\ raised' = res.raised
            /\ response' = NoResponse
            /\ op' = "service_plan_route"
            /\ UNCHANGED <<serviceVars, db, graph, route_cache>>

\* POST /{route_id}/fare
RouterCalculateRouteFare ==
    /\ op = "idle"
    /\ \E cached \in {<<r>> : r \in route_cache} \cup {<<>>},
          passenger_type_id \in AnyPassengerTypeIds :
         \E res \in {router_calculate_route_fare(db, cached, passenger_type_id)} :
            /\ request' = [route |-> cached, passenger_type_id |-> passenger_type_id]
            /\ raised' = res.raised
            /\ response' = res
            /\ op' = "calculate_route_fare"
            /\ UNCHANGED <<serviceVars, db, graph, routes, route_cache>>

\* POST /fare-calculate
RouterCalculateFare ==
    /\ op = "idle"
    /\ \E fare_request \in FareCalculationRequests :
         \E res \in {router_calculate_fare(db, fare_request)} :
            /\ request' = fare_request
            /\ raised' = res.raised
            /\ response' = res
            /\ op' = "calculate_fare_from_request"
            /\ UNCHANGED <<serviceVars, db, graph, routes, route_cache>>

\* POST /compare-fares
RouterCompareRouteFares ==
    /\ op = "idle"
    /\ \E lookups \in CompareLookups, passenger_type_id \in AnyPassengerTypeIds :
         \E res \in {router_compare_route_fares(db, lookups, passenger_type_id)} :
            /\ request' = [routes |-> lookups, passenger_type_id |-> passenger_type_id]
            /\ raised' = res.raised
            /\ response' = res
            /\ op' = "compare_route_fares"
            /\ UNCHANGED <<serviceVars, db, graph, routes, route_cache>>

\* FareCalculationService(db).get_discount_info(passenger_type_id)
GetDiscountInfo ==
    /\ op = "idle"
    /\ \E passenger_type_id \in AnyPassengerTypeIds :
         \E res \in {get_discount_info(FareCalculationService(db), passenger_type_id)} :
            /\ request' = [passenger_type_id |-> passenger_type_id]
            /\ raised' = res.raised
            /\ response' = res
            /\ op' = "get_discount_info"
            /\ UNCHANGED <<serviceVars, db, graph, routes, route_cache>>

\* FareCalculationService(db)._calculate_segment_fare(segment, id, 1)
CalculateSegmentFare ==
    /\ op = "idle"
    /\ \E segment \in RouteSegments, passenger_type_id \in AnyPassengerTypeIds :
         \E res \in {_calculate_segment_fare(FareCalculationService(db), segment,
                                             passenger_type_id, 1)} :
            /\ request' = [segment |-> segment, passenger_type_id |-> passenger_type_id]
            /\ raised' = res.raised
            /\ response' = res
            /\ op' = "_calculate_segment_fare"
            /\ UNCHANGED <<serviceVars, db, graph, routes, route_cache>>

\* RouteValidator(db).validate_route_feasibility(request), with the answer of
\* the connectivity probe it is built on
ValidateRouteFeasibility ==
    /\ op = "idle"
    /\ \E req \in PlanRequests :
         \E res \in {[is_connected |-> validate_station_connectivity(db, req.from_station_id, req.to_station_id), is_feasible |-> validate_route_feasibility(db, req)]} :
            /\ request' = req
            /\ raised' = "none"
            /\ response' = Returns(res)
            /\ op' = "validate_route_feasibility"
            /\ UNCHANGED <<serviceVars, db, graph, routes, route_cache>>

FareNext ==
    \/ RouterPlanRoute
    \/ RouterGetRouteAlternatives
    \/ RouterGetRouteDetails
    \/ ValidateRouteFeasibility
    \/ ServicePlanRoute
    \/ RouterCalculateRouteFare
    \/ RouterCalculateFare
    \/ RouterCompareRouteFares
    \/ GetDiscountInfo
    \/ CalculateSegmentFare
    \/ Return

FareSpec == FareInit /\ [][FareNext]_vars

\* ---------------------------------------------- the calls of ValidationSpec
\* stations 1, 2 in service on line 1, stations 3, 4 out of service on line 2
ValidationStations ==
    [s \in 1..4 |->
        CASE s = 1 -> StationRow(1, 1, "active", 1)
          [] s = 2 -> StationRow(2, 1, "active", 1)
          [] s = 3 -> StationRow(3, 2, "maintenance", 2)
          [] s = 4 -> StationRow(4, 2, "closed", 2)]

ValidationDatabases ==
    { [stations |-> ValidationStations, train_lines |-> LineIds,
       transfer_points |-> <<TransferPointRow(2, 3, 5, 10, TRUE)>>,
       passenger_types |-> pt, fare_rules |-> <<>>] :
      pt \in {PassengerTypes, <<>>} }

\* datetime.now(), in hours
ValidationClock == 1000

\* tzinfo of a datetime: None, or the offset to UTC in hours
TzInfos == {None, 7}

\* departure_time: None, or a datetime on and around both limits
DepartureTimes ==
    {<<>>} \cup
    { <<[wall |-> w, tzinfo |-> tz]>> :
        w \in {ValidationClock - PAST_LIMIT_HOURS - 1,
               ValidationClock - PAST_LIMIT_HOURS,
               ValidationClock,
               ValidationClock + FUTURE_LIMIT_DAYS * HOURS_PER_DAY,
               ValidationClock + FUTURE_LIMIT_DAYS * HOURS_PER_DAY + 1},
        tz \in TzInfos }

\* RouteRequest objects: optimization is a Literal of the three modes, the
\* other fields are free
ValidationRequests ==
    [from_station_id : {1, 3, 5}, to_station_id : {1, 2, 4, 5},
     departure_time : DepartureTimes,
     passenger_type_id : {1, UnknownPassengerTypeId},
     optimization : Range(Optimizations),
     max_walking_time : {MIN_WALKING_TIME - 1, MIN_WALKING_TIME,
                         MAX_WALKING_TIME, MAX_WALKING_TIME + 1},
     max_transfers : {MIN_TRANSFERS - 1, MIN_TRANSFERS,
                      MAX_TRANSFERS, MAX_TRANSFERS + 1}]

ValidationInit ==
    /\ db \in ValidationDatabases
    /\ graph = _build_network_graph(db)
    /\ request = NoRequest
    /\ routes = <<>>
    /\ raised = "none"
    /\ op = "idle"
    /\ route_cache = {}
    /\ response = NoResponse
    /\ NoServices

\* RouteValidator(db).validate_route_request(request) at the time of the clock
ValidateRouteRequest ==
    /\ op = "idle"
    /\ \E req \in ValidationRequests :
         \E errors \in {validate_route_request(db, req, ValidationClock)} :
            /\ request' = req
            /\ raised' = "none"
            /\ response' = Returns(errors)
            /\ op' = "validate_route_request"
            /\ UNCHANGED <<serviceVars, db, graph, routes, route_cache>>

ValidationNext ==
    \/ ValidateRouteRequest
    \/ Return

ValidationSpec == ValidationInit /\ [][ValidationNext]_vars

\* ============================================================ TicketService
MaxTickets == 3
MaxValidationLogs == 4

VALID_BEFORE_DEPARTURE == 120
VALID_AFTER_ARRIVAL == 60

\* TicketValidationResponse.validation_status: a Literal of six values
ValidationStatusLiteral ==
    {"valid", "invalid", "expired", "already_used", "not_found", "tampered"}

\* the journey of the bookings tickets are generated for; times in minutes
TicketJourney ==
    [departure_time |-> 200, arrival_time |-> 210,
     segments |-> <<[from_station_id |-> 1, to_station_id |-> 2]>>]

\* the fields of a BookingReservation that generate_tickets reads;
\* passengers is the length of the passenger list
TicketBookings == [booking_id : {1, 2}, passengers : {1, 2}, journey : {TicketJourney}]

\* _generate_qr_code_data: the payload names the ticket and the booking and
\* carries the validation code of the security info
QrCodeData(ticket_id, booking, validation_code) ==
    [tid |-> ticket_id, bid |-> booking.booking_id, code |-> validation_code]

\* secrets.token_hex(8): the code drawn for a ticket
ValidationCodes == {1}

\* a payload no ticket was issued with
ForgedQrCodeData == [tid |-> None, bid |-> None, code |-> None]

\* _generate_single_ticket (lines 339-382); uuid4 gives an id not yet in use
_generate_single_ticket(storage, booking, validation_code) ==
    LET ticket_id == Cardinality(DOMAIN storage) + 1
    IN  [ticket_id |-> ticket_id,
         booking_id |-> booking.booking_id,
         journey |-> booking.journey,
         ticket_status |-> "active",
         qr_code_data |-> QrCodeData(ticket_id, booking, validation_code),
         valid_from |-> booking.journey.departure_time - VALID_BEFORE_DEPARTURE,
         valid_until |-> booking.journey.arrival_time + VALID_AFTER_ARRIVAL,
         used_at |-> None,
         validated_at |-> None]

\* generate_tickets (lines 35-45): one stored ticket for every passenger
RECURSIVE generate_tickets(_, _, _, _)
generate_tickets(storage, booking, i, validation_code) ==
    IF i > booking.passengers THEN storage
    ELSE LET ticket == _generate_single_ticket(storage, booking, validation_code)
         IN  generate_tickets(Put(storage, ticket.ticket_id, ticket), booking, i + 1,
                              validation_code)

\* TicketValidationResponse(...): a status outside the Literal is refused by
\* the schema
TicketValidationResponse(req, is_valid, validation_status, allow_entry) ==
    IF validation_status \in ValidationStatusLiteral
    THEN Returns([ticket_id |-> req.ticket_id, is_valid |-> is_valid,
                  validation_status |-> validation_status,
                  validation_timestamp |-> req.validation_timestamp,
                  allow_entry |-> allow_entry])
    ELSE Raise("ValidationError")

\* lines 117-118: the stations of the journey's segments
JourneyStationIds(journey) ==
    {journey.segments[i].from_station_id : i \in 1..Len(journey.segments)}
    \cup {journey.segments[Len(journey.segments)].to_station_id}

\* mutant: the time of use is recorded and the status is left as it was
MarkUsed_StatusKept(ticket, current_time) ==
    [ticket EXCEPT !.used_at = current_time, !.validated_at = current_time]

\* lines 130-132
MarkUsed(ticket, current_time) ==
    [ticket EXCEPT !.ticket_status = "used", !.used_at = current_time,
                   !.validated_at = current_time]

\* _log_validation (lines 445-467), the log never reaching 1000 entries here
_log_validation(logs, req, ticket, success) ==
    Append(logs, [timestamp |-> req.validation_timestamp, ticket_id |-> req.ticket_id,
                  station_id |-> req.validation_station_id, success |-> success])

\* validate_ticket (lines 55-151): the storage and the log after the call,
\* and what the call returns or raises
validate_ticket(storage, logs, req) ==
    LET ticket == DictGet(storage, req.ticket_id)
        same == [storage |-> storage, logs |-> logs]
    IN  IF ticket = <<>>
        THEN same @@ [res |-> TicketValidationResponse(req, FALSE, "not_found", FALSE)]
        ELSE IF ticket[1].qr_code_data # req.qr_code_data
        THEN same @@ [res |-> TicketValidationResponse(req, FALSE, "tampered", FALSE)]
        ELSE IF ticket[1].ticket_status = "used"
        THEN same @@ [res |-> TicketValidationResponse(req, FALSE, "already_used", FALSE)]
        ELSE IF ticket[1].ticket_status \in {"expired", "cancelled", "refunded"}
        THEN same @@ [res |-> TicketValidationResponse(req, FALSE,
                                                       ticket[1].ticket_status, FALSE)]
        ELSE IF req.validation_timestamp < ticket[1].valid_from
                \/ req.validation_timestamp > ticket[1].valid_until
        THEN same @@ [res |-> TicketValidationResponse(req, FALSE, "expired", FALSE)]
        ELSE IF req.validation_station_id \notin JourneyStationIds(ticket[1].journey)
        THEN same @@ [res |-> TicketValidationResponse(req, FALSE, "invalid", FALSE)]
        ELSE [storage |-> Put(storage, req.ticket_id,
                              MarkUsed(ticket[1], req.validation_timestamp)),
              logs |-> _log_validation(logs, req, ticket[1], TRUE),
              res |-> TicketValidationResponse(req, TRUE, "valid", TRUE)]

\* cancel_tickets (lines 153-164)
cancel_tickets(storage, booking_id) ==
    LET hit == {id \in DOMAIN storage :
                  storage[id].booking_id = booking_id
                  /\ storage[id].ticket_status = "active"}
    IN  [storage |-> [id \in DOMAIN storage |->
                        IF id \in hit
                        THEN [storage[id] EXCEPT !.ticket_status = "cancelled"]
                        ELSE storage[id]],
         res |-> Returns([cancelled_count |-> Cardinality(hit)])]

\* ------------------------------------------------ the calls of TicketSpec
NoTables == [stations |-> <<>>, train_lines |-> {}, transfer_points |-> <<>>]

\* the requests of a validator: any known or unknown ticket id, the payload
\* of a stored ticket or a forged one, a station on or off the journey, a
\* time before, within and after the validity window
TicketValidationRequests ==
    [ticket_id : 1..(MaxTickets + 1),
     qr_code_data : {_ticket_storage[id].qr_code_data : id \in DOMAIN _ticket_storage}
                    \cup {ForgedQrCodeData},
     validation_station_id : {1, 3},
     validation_timestamp :
         {TicketJourney.departure_time - VALID_BEFORE_DEPARTURE - 1,
          TicketJourney.departure_time - VALID_BEFORE_DEPARTURE,
          TicketJourney.arrival_time + VALID_AFTER_ARRIVAL + 1}]

TicketInit ==
    /\ db = NoTables
    /\ graph = EmptyGraph
    /\ request = NoRequest
    /\ routes = <<>>
    /\ raised = "none"
    /\ op = "idle"
    /\ route_cache = {}
    /\ response = NoResponse
    /\ NoServices

\* TicketService.generate_tickets(booking)
GenerateTickets ==
    /\ op = "idle"
    /\ \E booking \in TicketBookings, validation_code \in ValidationCodes :
         /\ Cardinality(DOMAIN _ticket_storage) + booking.passengers <= MaxTickets
         /\ _ticket_storage' = generate_tickets(_ticket_storage, booking, 1, validation_code)
         /\ request' = booking
         /\ raised' = "none"
         /\ response' = Returns([tickets |-> (DOMAIN _ticket_storage') \ (DOMAIN _ticket_storage)])
         /\ op' = "generate_tickets"
         /\ UNCHANGED <<db, graph, routes, route_cache, _validation_logs,
                        _booking_storage, now>>

\* TicketService.validate_ticket(request)
ValidateTicket ==
    /\ op = "idle"
    /\ \E req \in TicketValidationRequests :
         \E out \in {validate_ticket(_ticket_storage, _validation_logs, req)} :
            /\ Len(out.logs) <= MaxValidationLogs
            /\ _ticket_storage' = out.storage
            /\ _validation_logs' = out.logs
            /\ request' = req
            /\ raised' = out.res.raised
            /\ response' = out.res
            /\ op' = "validate_ticket"
            /\ UNCHANGED <<db, graph, routes, route_cache, _booking_storage, now>>

\* TicketService.cancel_tickets(booking_id)
CancelTickets ==
    /\ op = "idle"
    /\ \E booking_id \in {1, 2} :
         \E out \in {cancel_tickets(_ticket_storage, booking_id)} :
            /\ _ticket_storage' = out.storage
            /\ request' = [booking_id |-> booking_id]
            /\ raised' = "none"
            /\ response' = out.res
            /\ op' = "cancel_tickets"
            /\ UNCHANGED <<db, graph, routes, route_cache, _validation_logs,
                           _booking_storage, now>>

TicketNext == GenerateTickets \/ ValidateTicket \/ CancelTickets \/ Return

TicketSpec == TicketInit /\ [][TicketNext]_vars

\* ============================================================ BookingService
MaxBookings == 2
MaxNow == 90
ClockStep == 30
MaxAmount == 110

BOOKING_EXPIRY_MINUTES == 30
CONFIRMATION_LEAD_MINUTES == 120
MODIFICATION_LEAD_MINUTES == 120
MODIFICATION_FEE == 50
JOURNEY_VALIDITY_MINUTES == 30
MAX_ADVANCE_MINUTES == 43200
MAX_PASSENGERS == 10
MINUTES_PER_DAY == 1440
REFUND_WINDOW_MINUTES == 120
AUTO_APPROVE_LIMIT == 500

\* a journey held by the journey service of the booking service: planned at
\* created_at, for passengers without a discount; times in minutes
PlannedJourney(journey_id, created_at, departure_time) ==
    [journey_id |-> journey_id, created_at |-> created_at,
     departure_time |-> departure_time, arrival_time |-> departure_time + 10,
     total_cost |-> 60,
     segments |-> <<[from_station_id |-> 1, to_station_id |-> 2]>>]

\* JourneyPlanningService.validate_journey_for_booking (lines 67-137); the
\* capacity and disruption checks add warnings only
validate_journey_for_booking(_journey_cache, journey_id, passengers, booking_time) ==
    LET journey == DictGet(_journey_cache, journey_id)
    IN  IF journey = <<>>
        THEN [is_valid |-> FALSE, errors |-> <<"Journey not found or expired">>,
              estimated_total_cost |-> None]
        ELSE IF booking_time - journey[1].created_at > JOURNEY_VALIDITY_MINUTES
        THEN [is_valid |-> FALSE,
              errors |-> <<"Journey plan has expired. Please search again.">>,
              estimated_total_cost |-> None]
        ELSE LET e1 == IF journey[1].departure_time <= booking_time
                       THEN <<"Departure time has passed">> ELSE <<>>
                 e2 == IF journey[1].departure_time > booking_time + MAX_ADVANCE_MINUTES
                       THEN <<"Cannot book journeys more than 30 days in advance">>
                       ELSE <<>>
                 e3 == IF passengers > MAX_PASSENGERS
                       THEN <<"Maximum 10 passengers per booking">>
                       ELSE IF passengers = 0
                       THEN <<"At least 1 passenger required">> ELSE <<>>
                 errors == e1 \o e2 \o e3
             IN  [is_valid |-> errors = <<>>, errors |-> errors,
                  estimated_total_cost |-> journey[1].total_cost]

\* create_reservation (lines 29-89); uuid4 gives an id not yet in use
create_reservation(storage, _journey_cache, req, current_time) ==
    LET validation == validate_journey_for_booking(_journey_cache, req.journey_id,
                                                   req.passengers, current_time)
        journey == DictGet(_journey_cache, req.journey_id)
        booking_id == Cardinality(DOMAIN storage) + 1
    IN  IF ~validation.is_valid
        THEN [storage |-> storage, res |-> Raise("ValueError: Journey cannot be booked")]
        ELSE IF journey = <<>>
        THEN [storage |-> storage, res |-> Raise("ValueError: Journey not found")]
        ELSE LET reservation ==
                   [booking_id |-> booking_id,
                    journey |-> journey[1],
                    passengers |-> req.passengers,
                    contact_email |-> req.contact_email,
                    booking_status |-> "pending",
                    payment_status |-> "pending",
                    total_amount |-> IF validation.estimated_total_cost # 0
                                     THEN validation.estimated_total_cost
                                     ELSE journey[1].total_cost,
                    booking_created_at |-> current_time,
                    booking_expires_at |-> current_time + BOOKING_EXPIRY_MINUTES,
                    confirmation_deadline |->
                        journey[1].departure_time - CONFIRMATION_LEAD_MINUTES]
             IN  [storage |-> Put(storage, booking_id, reservation),
                  res |-> Returns(reservation)]

\* _process_payment (lines 367-390): the simulated payment always succeeds
_process_payment(reservation, payment_method, current_time) ==
    [booking_id |-> reservation.booking_id, amount |-> reservation.total_amount,
     payment_method |-> payment_method, payment_status |-> "paid",
     processed_at |-> current_time]

\* mutant: no reservation is ever too old to confirm
HasExpired_Never(reservation, current_time) == FALSE

\* line 105
HasExpired(reservation, current_time) == current_time > reservation.booking_expires_at

\* confirm_booking (lines 91-135); the tickets go to a TicketService built
\* for this call
confirm_booking(storage, booking_id, payment_method, current_time, validation_code) ==
    LET reservation == DictGet(storage, booking_id)
    IN  IF reservation = <<>>
        THEN [storage |-> storage, res |-> Raise("ValueError: Booking not found")]
        ELSE IF reservation[1].booking_status # "pending"
        THEN [storage |-> storage, res |-> Raise("ValueError: Booking cannot be confirmed")]
        ELSE IF HasExpired(reservation[1], current_time)
        THEN [storage |-> storage, res |-> Raise("ValueError: Booking has expired")]
        ELSE LET payment_details == _process_payment(reservation[1], payment_method,
                                                     current_time)
             IN  IF payment_details.payment_status # "paid"
                 THEN [storage |-> storage,
                       res |-> Raise("ValueError: Payment processing failed")]
                 ELSE LET confirmed == [reservation[1] EXCEPT
                                          !.booking_status = "confirmed",
                                          !.payment_status = "paid"]
                          tickets == generate_tickets(<<>>, confirmed, 1, validation_code)
                      IN  [storage |-> Put(storage, booking_id, confirmed),
                           res |-> Returns([booking |-> confirmed, tickets |-> tickets,
                                            payment_details |-> payment_details])]

\* modify_booking (lines 137-204), for a modification of the departure time
\* and the contact email
modify_booking(storage, booking_id, modification, current_time) ==
    LET reservation == DictGet(storage, booking_id)
    IN  IF reservation = <<>>
        THEN [storage |-> storage, res |-> Raise("ValueError: Booking not found")]
        ELSE IF reservation[1].booking_status \notin {"pending", "confirmed"}
        THEN [storage |-> storage, res |-> Raise("ValueError: Booking cannot be modified")]
        ELSE IF current_time > reservation[1].journey.departure_time
                                 - MODIFICATION_LEAD_MINUTES
        THEN [storage |-> storage,
              res |-> Raise("ValueError: Cannot modify booking within 2 hours of departure")]
        ELSE LET r0 == reservation[1]
                 time_diff == modification.new_departure_time - r0.journey.departure_time
                 r1 == IF modification.new_departure_time # None
                       THEN [r0 EXCEPT
                               !.journey.departure_time = modification.new_departure_time,
                               !.journey.arrival_time = @ + time_diff]
                       ELSE r0
                 r2 == IF modification.update_contact_email # ""
                       THEN [r1 EXCEPT !.contact_email = modification.update_contact_email]
                       ELSE r1
                 modified == modification.new_departure_time # None
                             \/ modification.update_contact_email # ""
                 r3 == IF r2.booking_status = "confirmed"
                       THEN [r2 EXCEPT !.total_amount = @ + MODIFICATION_FEE]
                       ELSE r2
             IN  IF ~modified
                 THEN [storage |-> storage,
                       res |-> Raise("ValueError: No valid modifications provided")]
                 ELSE [storage |-> Put(storage, booking_id, r3), res |-> Returns(r3)]

\* _calculate_refund_amount (lines 392-411)
_calculate_refund_amount(reservation, current_time) ==
    LET time_until_departure == reservation.journey.departure_time - current_time
        days == time_until_departure \div MINUTES_PER_DAY
    IN  IF time_until_departure <= 0 THEN 0
        ELSE IF days >= 7 THEN (reservation.total_amount * 9) \div 10
        ELSE IF days >= 3 THEN (reservation.total_amount * 7) \div 10
        ELSE IF days >= 1 THEN (reservation.total_amount * 5) \div 10
        ELSE IF time_until_departure >= REFUND_WINDOW_MINUTES
        THEN (reservation.total_amount * 3) \div 10
        ELSE 0

\* RefundRequest(...): refund_method is a Literal the schema does not allow
\* to be None
RefundRequest(booking_id, refund_amount, cancellation, current_time) ==
    IF cancellation.refund_method \notin {"original", "credit", "bank_transfer"}
    THEN Raise("ValidationError")
    ELSE Returns([booking_id |-> booking_id, requested_amount |-> refund_amount,
                  refund_status |-> IF refund_amount <= AUTO_APPROVE_LIMIT
                                    THEN "approved" ELSE "requested",
                  requested_at |-> current_time,
                  refund_method |-> cancellation.refund_method])

\* cancel_booking (lines 206-248): the status is set before the refund
\* request is built
cancel_booking(storage, booking_id, cancellation, current_time) ==
    LET reservation == DictGet(storage, booking_id)
    IN  IF reservation = <<>>
        THEN [storage |-> storage, res |-> Raise("ValueError: Booking not found")]
        ELSE IF reservation[1].booking_status = "cancelled"
        THEN [storage |-> storage,
              res |-> Raise("ValueError: Booking is already cancelled")]
        ELSE LET refund_amount == _calculate_refund_amount(reservation[1], current_time)
                 cancelled == [reservation[1] EXCEPT !.booking_status = "cancelled"]
             IN  [storage |-> Put(storage, booking_id, cancelled),
                  res |-> IF cancellation.request_refund /\ refund_amount > 0
                          THEN RefundRequest(booking_id, refund_amount, cancellation,
                                             current_time)
                          ELSE Returns([booking_id |-> booking_id,
                                        requested_amount |-> 0,
                                        refund_status |-> "None",
                                        requested_at |-> None,
                                        refund_method |-> "None"])]

\* lines 290-299: what process_expired_bookings does to one booking
ProcessExpired(booking, current_time) ==
    IF booking.booking_status = "pending" /\ current_time > booking.booking_expires_at
    THEN IF current_time > booking.confirmation_deadline
         THEN [booking EXCEPT !.booking_status = "cancelled"]
         ELSE [booking EXCEPT !.booking_status = "expired"]
    ELSE booking

\* process_expired_bookings (lines 282-304)
process_expired_bookings(storage, current_time) ==
    LET expired == {id \in DOMAIN storage :
                      /\ storage[id].booking_status = "pending"
                      /\ current_time > storage[id].booking_expires_at}
        cancelled == {id \in expired : current_time > storage[id].confirmation_deadline}
    IN  [storage |-> [id \in DOMAIN storage |-> ProcessExpired(storage[id], current_time)],
         res |-> Returns([expired |-> Cardinality(expired),
                          cancelled |-> Cardinality(cancelled)])]

\* ----------------------------------------------- the calls of BookingSpec
\* the journeys the journey service can hold at a time: planned now or an
\* hour ago, departing one or four hours after they were planned
JourneyCaches(current_time) ==
    {Put(<<>>, 1, PlannedJourney(1, created_at, created_at + ahead)) :
        created_at \in {current_time, current_time - 60}, ahead \in {60, 240}}

BookingReservationRequests ==
    [journey_id : {1, 2}, passengers : {1, 2}, contact_email : {"a"}]

BookingIds == 1..(MaxBookings + 1)

BookingModificationRequests ==
    [new_departure_time : {None, 270}, update_contact_email : {"", "b"}]

BookingCancellationRequests ==
    [request_refund : BOOLEAN, refund_method : {"original", "None"}]

BookingInit ==
    /\ db = NoTables
    /\ graph = EmptyGraph
    /\ request = NoRequest
    /\ routes = <<>>
    /\ raised = "none"
    /\ op = "idle"
    /\ route_cache = {}
    /\ response = NoResponse
    /\ NoServices

\* BookingService.create_reservation(request)
CreateReservation ==
    /\ op = "idle"
    /\ Cardinality(DOMAIN _booking_storage) < MaxBookings
    /\ \E req \in BookingReservationRequests, _journey_cache \in JourneyCaches(now) :
         \E out \in {create_reservation(_booking_storage, _journey_cache, req, now)} :
            /\ _booking_storage' = out.storage
            /\ request' = req
            /\ raised' = out.res.raised
            /\ response' = out.res
            /\ op' = "create_reservation"
            /\ UNCHANGED <<db, graph, routes, route_cache, _ticket_storage,
                           _validation_logs, now>>

\* BookingService.confirm_booking(booking_id, payment_method)
ConfirmBooking ==
    /\ op = "idle"
    /\ \E booking_id \in BookingIds, validation_code \in ValidationCodes :
         \E out \in {confirm_booking(_booking_storage, booking_id, "credit_card", now,
                                     validation_code)} :
            /\ _booking_storage' = out.storage
            /\ request' = [booking_id |-> booking_id]
            /\ raised' = out.res.raised
            /\ response' = out.res
            /\ op' = "confirm_booking"
            /\ UNCHANGED <<db, graph, routes, route_cache, _ticket_storage,
                           _validation_logs, now>>

\* BookingService.modify_booking(booking_id, modification)
ModifyBooking ==
    /\ op = "idle"
    /\ \E booking_id \in BookingIds, modification \in BookingModificationRequests :
         \E out \in {modify_booking(_booking_storage, booking_id, modification, now)} :
            /\ \A id \in DOMAIN out.storage : out.storage[id].total_amount <= MaxAmount
            /\ _booking_storage' = out.storage
            /\ request' = [booking_id |-> booking_id, modification |-> modification]
            /\ raised' = out.res.raised
            /\ response' = out.res
            /\ op' = "modify_booking"
            /\ UNCHANGED <<db, graph, routes, route_cache, _ticket_storage,
                           _validation_logs, now>>

\* BookingService.cancel_booking(booking_id, cancellation)
CancelBooking ==
    /\ op = "idle"
    /\ \E booking_id \in BookingIds, cancellation \in BookingCancellationRequests :
         \E out \in {cancel_booking(_booking_storage, booking_id, cancellation, now)} :
            /\ _booking_storage' = out.storage
            /\ request' = [booking_id |-> booking_id, cancellation |-> cancellation]
            /\ raised' = out.res.raised
            /\ response' = out.res
            /\ op' = "cancel_booking"
            /\ UNCHANGED <<db, graph, routes, route_cache, _ticket_storage,
                           _validation_logs, now>>

\* BookingService.process_expired_bookings()
ProcessExpiredBookings ==
    /\ op = "idle"
    /\ \E out \in {process_expired_bookings(_booking_storage, now)} :
         /\ _booking_storage' = out.storage
         /\ request' = [booking_id |-> None]
         /\ raised' = "none"
         /\ response' = out.res
         /\ op' = "process_expired_bookings"
         /\ UNCHANGED <<db, graph, routes, route_cache, _ticket_storage,
                        _validation_logs, now>>

\* datetime.now() moves on between two calls
Tick ==
    /\ op = "idle"
    /\ now + ClockStep <= MaxNow
    /\ now' = now + ClockStep
    /\ UNCHANGED <<db, graph, request, routes, raised, op, route_cache, response,
                   _ticket_storage, _validation_logs, _booking_storage>>

BookingNext ==
    \/ CreateReservation
    \/ ConfirmBooking
    \/ ModifyBooking
    \/ CancelBooking
    \/ ProcessExpiredBookings
    \/ Tick
    \/ Return

BookingSpec == BookingInit /\ [][BookingNext]_vars

\* ================================================================ properties
Called == op # "idle"

RECURSIVE SumInts(_)
SumInts(s) == IF s = <<>> THEN 0 ELSE Head(s) + SumInts(Tail(s))

\* the measures of a sequence of edges or of segments
SumDuration(p) == SumInts([i \in 1..Len(p) |-> p[i].duration_minutes])

SumCost(p) == SumInts([i \in 1..Len(p) |-> p[i].cost])

TransferSegments(p) == Cardinality({i \in 1..Len(p) : p[i].transport_type = "transfer"})

LineChanges(p) ==
    Cardinality({i \in 2..Len(p) :
                    /\ p[i - 1].transport_type = "train"
                    /\ p[i].transport_type = "train"
                    /\ p[i - 1].line_id # p[i].line_id})

PathTransfers(p) == TransferSegments(p) + LineChanges(p)

PathWalking(p) ==
    SumInts([i \in 1..Len(p) |->
                IF p[i].transport_type = "transfer" THEN p[i].duration_minutes ELSE 0])

\* duration with the walking minutes of transfer edges counted five times
WeightedDuration(p) == SumDuration(p) + (TRANSFER_PENALTY - 1) * PathWalking(p)

SatisfiesCaps(p, req) ==
    PathTransfers(p) <= req.max_transfers /\ PathWalking(p) <= req.max_walking_time

\* the simple paths of the graph from cur to target that avoid the stations seen
RECURSIVE SimplePaths(_, _, _, _)
SimplePaths(g, cur, target, seen) ==
    IF cur = target THEN {<<>>}
    ELSE UNION { { <<e>> \o q : q \in SimplePaths(g, e.to_station_id, target,
                                                 seen \cup {e.to_station_id}) } :
                 e \in {x \in Range(get_neighbors(g, cur)) : x.to_station_id \notin seen} }

PathsBetween(g, a, b) == IF a = b THEN {} ELSE SimplePaths(g, a, b, {a})

PathsFrom(g, a) == UNION { PathsBetween(g, a, b) : b \in DOMAIN g.edges }

FeasiblePaths(g, req) ==
    {p \in PathsBetween(g, req.from_station_id, req.to_station_id) : SatisfiesCaps(p, req)}

\* C1: in every returned RouteOption the summary's total duration is the sum
\* of the segments' durations and its total cost the sum of the segments' costs
C1_TotalsAreSegmentSums ==
    \A k \in 1..Len(routes) :
        /\ routes[k].summary.total_duration_minutes = SumDuration(routes[k].segments)
        /\ routes[k].summary.total_cost = SumCost(routes[k].segments)

C1_Witness ==
    /\ Called
    /\ \E k \in 1..Len(routes) :
          /\ Len(routes[k].segments) >= 2
          /\ \E i \in 1..Len(routes[k].segments) :
                /\ routes[k].segments[i].transport_type = "transfer"
                /\ routes[k].segments[i].cost > 0

\* C2: planning from a station to the same station returns no route option,
\* whatever the optimization mode and the caps
C2_SameStationNoRoute ==
    (Called /\ request.from_station_id = request.to_station_id) => routes = <<>>

C2_Witness ==
    /\ op = "calculate_route"
    /\ request.from_station_id = request.to_station_id
    /\ request.from_station_id \in DOMAIN graph.nodes
    /\ get_neighbors(graph, request.from_station_id) # <<>>
    /\ routes = <<>>

\* every connecting path needs a transfer and a one-transfer path exists
NeedsOneTransfer(g, req) ==
    LET paths == PathsBetween(g, req.from_station_id, req.to_station_id)
    IN  /\ \A p \in paths : PathTransfers(p) >= 1
        /\ \E p \in paths : PathTransfers(p) = 1

\* no path leaving the origin takes more than one transfer edge, and none
\* walks longer than the request allows
AtMostOneTransferFromOrigin(g, req) ==
    \A p \in PathsFrom(g, req.from_station_id) :
        TransferSegments(p) <= 1 /\ PathWalking(p) <= req.max_walking_time

C4_FeasibleImpliesRoute ==
    (Called /\ request.from_station_id \in DOMAIN graph.nodes
            /\ request.to_station_id \in DOMAIN graph.nodes
            /\ FeasiblePaths(graph, request) # {}) => routes # <<>>

\* C5: every returned route keeps within the caps of the request
C5_RoutesRespectCaps ==
    \A k \in 1..Len(routes) :
        /\ PathTransfers(routes[k].segments) <= request.max_transfers
        /\ PathWalking(routes[k].segments) <= request.max_walking_time
        /\ routes[k].summary.total_transfers <= request.max_transfers
        /\ routes[k].summary.total_walking_time_minutes <= request.max_walking_time

\* a cap is met exactly while a shorter path beyond the caps exists
C5_Witness ==
    /\ Called
    /\ routes # <<>>
    /\ request.optimization = "time"
    /\ \/ routes[1].summary.total_transfers = request.max_transfers
       \/ routes[1].summary.total_walking_time_minutes = request.max_walking_time
    /\ \E p \in PathsBetween(graph, request.from_station_id, request.to_station_id) :
          /\ ~SatisfiesCaps(p, request)
          /\ SumDuration(p) < routes[1].summary.total_duration_minutes

\* the network is one line that serves every station, without transfer edges
SingleLineNetwork(d) ==
    /\ MaxStations >= 2
    /\ \E l \in d.train_lines : \A s \in DOMAIN d.stations : d.stations[s].line_id = l
    /\ ActiveTransfers(d) = <<>>

FirstOfLine(d) == LineStations(d, d.stations[1].line_id)[1].id

LastOfLine(d) == LineStations(d, d.stations[1].line_id)[MaxStations].id

\* C6: on a single line of N stations without transfer points, planning from
\* the first to the last station returns exactly one option, of N-1 train
\* segments and no transfer, in every optimization mode
C6_SingleLineOneOption ==
    (Called /\ SingleLineNetwork(db)
            /\ request.from_station_id = FirstOfLine(db)
            /\ request.to_station_id = LastOfLine(db)) =>
        /\ Len(routes) = 1
        /\ Len(routes[1].segments) = MaxStations - 1
        /\ \A i \in 1..Len(routes[1].segments) :
              routes[1].segments[i].transport_type = "train"
        /\ routes[1].summary.total_transfers = 0

C6_Witness ==
    /\ Called
    /\ SingleLineNetwork(db)
    /\ request.from_station_id = FirstOfLine(db)
    /\ request.to_station_id = LastOfLine(db)
    /\ request.optimization = "cost"
    /\ Len(routes) = 1
    /\ Len(routes[1].segments) = MaxStations - 1

SearchedRoute(optimization) ==
    _dijkstra_shortest_path(graph, request.from_station_id, request.to_station_id,
                            optimization, request.max_walking_time,
                            request.max_transfers).route

Differs(r1, r2) ==
    \/ Abs(r1.summary.total_duration_minutes - r2.summary.total_duration_minutes)
          >= SIGNIFICANT_DIFF
    \/ Abs(r1.summary.total_cost - r2.summary.total_cost) >= SIGNIFICANT_DIFF
    \/ r1.summary.total_transfers # r2.summary.total_transfers

\* C7: at most three options are returned; the first is the route of the
\* requested mode, the others are routes of the other modes, and any two
\* options differ by 10 minutes, by 10 currency units or in transfer count
C7_AtMostThreeDistinctOptions ==
    /\ Len(routes) <= MAX_ROUTES
    /\ routes # <<>> => <<routes[1]>> = SearchedRoute(request.optimization)
    /\ \A k \in 2..Len(routes) :
          \E o \in Range(Optimizations) \ {request.optimization} :
              <<routes[k]>> = SearchedRoute(o)
    /\ \A j \in 1..Len(routes), k \in 1..Len(routes) :
          j < k => Differs(routes[j], routes[k])

C7_Witness ==
    /\ Called
    /\ Len(routes) = 2
    /\ routes[1].summary.total_transfers # routes[2].summary.total_transfers
    /\ SearchedRoute("time") # SearchedRoute("cost")

\* the connections the tables describe: neighbours in the name order of a
\* line, and the two stations of an active transfer point
DbLinked(d, a, b) ==
    \/ /\ d.stations[a].line_id # None
       /\ d.stations[a].line_id \in d.train_lines
       /\ d.stations[a].line_id = d.stations[b].line_id
       /\ a # b
       /\ ~\E c \in DOMAIN d.stations :
             /\ d.stations[c].line_id = d.stations[a].line_id
             /\ \/ d.stations[a].name < d.stations[c].name
                   /\ d.stations[c].name < d.stations[b].name
                \/ d.stations[b].name < d.stations[c].name
                   /\ d.stations[c].name < d.stations[a].name
    \/ \E i \in 1..Len(d.transfer_points) :
          /\ d.transfer_points[i].is_active
          /\ {d.transfer_points[i].station_a_id, d.transfer_points[i].station_b_id} = {a, b}

RECURSIVE DbReachSet(_, _)
DbReachSet(d, S) ==
    LET S2 == S \cup {b \in DOMAIN d.stations : \E a \in S : DbLinked(d, a, b)}
    IN  IF S2 = S THEN S ELSE DbReachSet(d, S2)

DbReachable(d, a, b) == b \in DbReachSet(d, {a})

Unroutable(d, req) ==
    \/ req.from_station_id \notin DOMAIN d.stations
    \/ req.to_station_id \notin DOMAIN d.stations
    \/ ~DbReachable(d, req.from_station_id, req.to_station_id)

\* C8: when an endpoint is no station of the network or the destination cannot
\* be reached, calculate_route and plan_route return an empty list and raise
\* nothing
C8_UnknownOrUnreachableIsEmpty ==
    (Called /\ Unroutable(db, request)) => (routes = <<>> /\ raised = "none")

\* two known stations that only an inactive transfer point connects
C8_Witness ==
    /\ op = "calculate_route"
    /\ request.from_station_id \in DOMAIN db.stations
    /\ request.to_station_id \in DOMAIN db.stations
    /\ ~DbReachable(db, request.from_station_id, request.to_station_id)
    /\ \E i \in 1..Len(db.transfer_points) :
          /\ ~db.transfer_points[i].is_active
          /\ db.transfer_points[i].station_a_id = request.from_station_id
          /\ db.transfer_points[i].station_b_id = request.to_station_id
    /\ routes = <<>>
    /\ raised = "none"

\* C9 as stated: in mode transfers the primary route has the fewest transfers
\* of all paths within the caps
C9_Original ==
    (Called /\ request.optimization = "transfers" /\ routes # <<>>) =>
        \A p \in FeasiblePaths(graph, request) :
            PathTransfers(routes[1].segments) <= PathTransfers(p)

ZeroTransferPaths(g, req) ==
    {p \in PathsBetween(g, req.from_station_id, req.to_station_id) : PathTransfers(p) = 0}

\* C9 as amended: in mode transfers the search minimises the duration with
\* transfer edges weighted five times; when a path without transfer exists, a
\* route is returned whose weighted duration is at most that path's duration
C9_PenaltyNotMinimum ==
    (Called /\ request.optimization = "transfers"
            /\ ZeroTransferPaths(graph, request) # {}) =>
        /\ routes # <<>>
        /\ \A p \in ZeroTransferPaths(graph, request) :
              WeightedDuration(routes[1].segments) <= SumDuration(p)

\* a transfer is taken although a path without transfer exists
C9_Witness ==
    /\ Called
    /\ request.optimization = "transfers"
    /\ ZeroTransferPaths(graph, request) # {}
    /\ routes # <<>>
    /\ routes[1].summary.total_transfers >= 1

\* C10: in mode time (cost) the primary route's total duration (total cost) is
\* the minimum over all paths within the caps
C10_PrimaryIsMinimum ==
    (Called /\ routes # <<>>) =>
        /\ request.optimization = "time" =>
              \A p \in FeasiblePaths(graph, request) :
                  routes[1].summary.total_duration_minutes <= SumDuration(p)
        /\ request.optimization = "cost" =>
              \A p \in FeasiblePaths(graph, request) :
                  routes[1].summary.total_cost <= SumCost(p)

\* ------------------------------------------------- properties of FareSpec
\* discount_percentage of a passenger type of the database, 0 without a row
DiscountOf(d, passenger_type_id) ==
    LET row == PassengerTypeById(d, passenger_type_id)
    IN  IF row = <<>> THEN 0 ELSE row[1].discount_percentage

Discounted(amount, pct) == amount - ((amount * pct) \div 100)

ActiveTransferPoints(d) ==
    {i \in 1..Len(d.transfer_points) : d.transfer_points[i].is_active}

Planned == op \in {"plan_route", "service_plan_route"} /\ raised = "none" /\ routes # <<>>

\* a route planned by cost between two lines that exactly one active
\* transfer point joins
OneTransferPointByCost ==
    /\ Planned
    /\ request.optimization = "cost"
    /\ db.stations[request.from_station_id].line_id
         # db.stations[request.to_station_id].line_id
    /\ Cardinality(ActiveTransferPoints(db)) = 1

FareResponded ==
    /\ op \in {"calculate_route_fare", "calculate_fare_from_request"}
    /\ raised = "none"

\* the train and transfer segments a pricing call was given, in route order
\* (a dict without transport_type is a train segment)
PricedSegmentTypes ==
    LET types == IF op = "calculate_route_fare"
                 THEN [i \in 1..Len(request.route[1].segments) |->
                          request.route[1].segments[i].transport_type]
                 ELSE [i \in 1..Len(request.route_segments) |->
                          GetOr(request.route_segments[i], "transport_type", "train")]
    IN  SelectSeq(types, LAMBDA t : t \in {"train", "transfer"})

BreakdownBalanced(b) ==
    b.segment_total = b.base_fare + b.distance_fare + b.transfer_fee - b.passenger_discount

\* C12: in every FareCalculationResponse each breakdown entry has
\* segment_total = base_fare + distance_fare + transfer_fee -
\* passenger_discount, the breakdown has one entry per train or transfer
\* segment in route order, and total_fare is the sum of the segment totals;
\* the equation also holds of every FareBreakdown _calculate_segment_fare
\* returns.
C12_BreakdownAddsUp ==
    /\ FareResponded =>
         LET r == response.value[1]
         IN  /\ \A i \in 1..Len(r.breakdown) : BreakdownBalanced(r.breakdown[i])
             /\ Len(r.breakdown) = Len(PricedSegmentTypes)
             /\ \A i \in 1..Len(r.breakdown) :
                   /\ r.breakdown[i].segment_id = i
                   /\ r.breakdown[i].segment_type = PricedSegmentTypes[i]
             /\ r.total_fare =
                  SumInts([i \in 1..Len(r.breakdown) |-> r.breakdown[i].segment_total])
    /\ (op = "_calculate_segment_fare" /\ raised = "none") =>
         BreakdownBalanced(response.value[1])

C12_Witness ==
    /\ op = "calculate_route_fare"
    /\ raised = "none"
    /\ Len(response.value[1].breakdown) = 2
    /\ response.value[1].breakdown[1].segment_type = "train"
    /\ response.value[1].breakdown[2].segment_type = "transfer"
    /\ response.value[1].breakdown[2].transfer_fee > 0
    /\ response.value[1].total_fare = 35

SegmentPriced == op = "_calculate_segment_fare"

\* C13: with a passenger type whose discount is 100 every train and transfer
\* FareBreakdown has segment_total 0, and a walk segment is priced 0 whatever
\* the discount: by _calculate_segment_fare, and in the response to a
\* request whose segments are all walk segments, which prices them at 0.
C13_FullDiscountAndWalkAreFree ==
    /\ (SegmentPriced /\ raised = "none"
        /\ DiscountOf(db, request.passenger_type_id) = 100) =>
           response.value[1].segment_total = 0
    /\ (FareResponded /\ DiscountOf(db, request.passenger_type_id) = 100) =>
           \A i \in 1..Len(response.value[1].breakdown) :
               response.value[1].breakdown[i].segment_total = 0
    /\ (SegmentPriced /\ request.segment.transport_type = "walk") =>
           raised = "none" /\ response.value[1].segment_total = 0
    /\ (op = "calculate_fare_from_request"
        /\ request.route_segments # <<>>
        /\ \A i \in 1..Len(request.route_segments) :
              GetOr(request.route_segments[i], "transport_type", "train") = "walk") =>
           raised = "none" /\ response.value[1].total_fare = 0

\* a train segment priced on its own, on a line that has a fare rule
RuledTrainSegment ==
    /\ SegmentPriced
    /\ request.segment.transport_type = "train"
    /\ request.segment.line_id \in DOMAIN FareCalculationService(db)._fare_rules_cache

RuleOfSegment == FareCalculationService(db)._fare_rules_cache[request.segment.line_id]

ZoneOf(d, station_id) ==
    IF d.stations[station_id].zone_number = None THEN 1
    ELSE d.stations[station_id].zone_number

\* max(0, |zone(from) - zone(to)| - 1)
ZoneSteps(d, segment) ==
    LET zone_diff == Abs(ZoneOf(d, segment.from_station_id)
                         - ZoneOf(d, segment.to_station_id))
    IN  IF zone_diff <= 1 THEN 0 ELSE zone_diff - 1

\* C14: a train segment on a line with a fare rule is priced from the rule:
\* base_fare is the rule's base fare and, for a zone-based rule, the
\* distance component is per_zone_fare * max(0, |zone(from) - zone(to)| - 1),
\* the discount being taken from their sum.
C14_ZoneComponent ==
    RuledTrainSegment =>
        /\ raised = "none"
        /\ response.value[1].base_fare = RuleOfSegment.base_fare
        /\ RuleOfSegment.fare_type = "zone_based" =>
             response.value[1].distance_fare =
                 RuleOfSegment.per_zone_fare * ZoneSteps(db, request.segment)
        /\ response.value[1].passenger_discount =
             ((response.value[1].base_fare + response.value[1].distance_fare)
              * DiscountOf(db, request.passenger_type_id)) \div 100

DEFAULT_DISTANCE_KM == 2

\* C15: for a distance-based rule the distance component of a train segment
\* is per_km_fare * max(0, d - distance_threshold_km), d being the segment's
\* own distance_km when it carries one and the default distance when neither
\* a distance nor coordinates are there.
C15_DistanceComponent ==
    RuledTrainSegment =>
        /\ raised = "none"
        /\ RuleOfSegment.fare_type = "distance_based" =>
             LET d == IF request.segment.distance_km # None
                      THEN request.segment.distance_km ELSE DEFAULT_DISTANCE_KM
                 extra == IF d <= RuleOfSegment.distance_threshold_km THEN 0
                          ELSE d - RuleOfSegment.distance_threshold_km
             IN  response.value[1].distance_fare = RuleOfSegment.per_km_fare * extra

\* the positions of the transfer-point records (a, b) of the database
RecordsBetween(d, a, b) ==
    {i \in 1..Len(d.transfer_points) :
        /\ d.transfer_points[i].station_a_id = a
        /\ d.transfer_points[i].station_b_id = b}

SetMin(S) == CHOOSE x \in S : \A y \in S : x <= y

\* fee of the record (x, y) if one exists, else of the record (y, x), else 0
TransferFeeBetween(d, x, y) ==
    IF RecordsBetween(d, x, y) # {}
    THEN d.transfer_points[SetMin(RecordsBetween(d, x, y))].transfer_fee
    ELSE IF RecordsBetween(d, y, x) # {}
    THEN d.transfer_points[SetMin(RecordsBetween(d, y, x))].transfer_fee
    ELSE 0

ReversedSegment(segment) ==
    [segment EXCEPT !.from_station_id = segment.to_station_id,
                    !.to_station_id = segment.from_station_id]

TransferPriced == SegmentPriced /\ request.segment.transport_type = "transfer"

\* C16: a transfer segment from X to Y is priced with the fee of the record
\* (X, Y), else of the record (Y, X), else 0; the discount is fee * pct / 100
\* and segment_total is fee - discount, with no base or distance fare; when
\* one record only connects X and Y, pricing Y to X gives the same amounts.
C16_TransferFee ==
    TransferPriced =>
        LET x == request.segment.from_station_id
            y == request.segment.to_station_id
            fee == TransferFeeBetween(db, x, y)
            pct == DiscountOf(db, request.passenger_type_id)
            back == _calculate_segment_fare(FareCalculationService(db), ReversedSegment(request.segment), request.passenger_type_id, 1)
        IN  /\ raised = "none"
            /\ response.value[1].segment_type = "transfer"
            /\ response.value[1].transfer_fee = fee
            /\ response.value[1].passenger_discount = (fee * pct) \div 100
            /\ response.value[1].segment_total = fee - ((fee * pct) \div 100)
            /\ response.value[1].base_fare = 0
            /\ response.value[1].distance_fare = 0
            /\ Cardinality(RecordsBetween(db, x, y) \cup RecordsBetween(db, y, x)) = 1 =>
                  /\ back.raised = "none"
                  /\ back.value[1] = response.value[1]

\* a transfer priced against the direction of the only record that connects
\* the two stations, for a passenger type with a discount
C16_Witness ==
    /\ TransferPriced
    /\ raised = "none"
    /\ RecordsBetween(db, request.segment.from_station_id, request.segment.to_station_id) = {}
    /\ Cardinality(RecordsBetween(db, request.segment.to_station_id, request.segment.from_station_id)) = 1
    /\ DiscountOf(db, request.passenger_type_id) = 20
    /\ response.value[1].transfer_fee = 10
    /\ response.value[1].passenger_discount = 2
    /\ response.value[1].segment_total = 8

\* a comparison of routes that are all held in the cache
CachedRoutesCompared ==
    /\ op = "compare_route_fares"
    /\ request.routes # <<>>
    /\ Len(request.routes) <= MAX_COMPARED_ROUTES
    /\ \A i \in 1..Len(request.routes) : request.routes[i] # <<>>

\* each route of the comparison is priced without an error on its own
EachRoutePriced ==
    \A i \in 1..Len(request.routes) :
        calculate_route_fare(FareCalculationService(db), request.routes[i][1],
                             request.passenger_type_id).raised = "none"

\* C17: compare_route_fares returns one entry per input route, total_fare
\* non-decreasing along the list, each entry carrying fare_per_minute =
\* total_fare / total_duration_minutes of its route, for any list of cached
\* routes whatever their durations (stated for the lists whose routes can
\* each be priced).
C17_ComparisonSorted ==
    (CachedRoutesCompared /\ EachRoutePriced) =>
        /\ raised = "none"
        /\ LET comparisons == response.value[1].comparisons
               n == Len(request.routes)
           IN  /\ Len(comparisons) = n
               /\ {comparisons[k].route_index : k \in 1..n} = 0..(n - 1)
               /\ \A k \in 1..n :
                     LET route == request.routes[comparisons[k].route_index + 1][1]
                     IN  /\ comparisons[k].route = route
                         /\ comparisons[k].fare_per_minute =
                               <<comparisons[k].total_fare,
                                 route.summary.total_duration_minutes>>
               /\ \A k \in 1..(n - 1) :
                     comparisons[k].total_fare <= comparisons[k + 1].total_fare

UnknownPassengerType == PassengerTypeById(db, request.passenger_type_id) = <<>>

\* a route or a list of raw segments was handed to the fare service
RoutePriced ==
    \/ op = "calculate_route_fare" /\ request.route # <<>>
    \/ op = "calculate_fare_from_request" /\ request.route_segments # <<>>

\* C18: for a passenger type id that is not known get_discount_info returns
\* the default ("Adult", discount 0) and raises nothing, and
\* calculate_route_fare and calculate_fare_from_request price the route with
\* a 0% discount labelled "Adult" instead of failing.
C18_UnknownTypeDefaults ==
    /\ (op = "get_discount_info" /\ UnknownPassengerType) =>
          /\ raised = "none"
          /\ response.value[1].passenger_type = "Adult"
          /\ response.value[1].discount_percentage = 0
    /\ (RoutePriced /\ UnknownPassengerType) =>
          /\ raised = "none"
          /\ response.value[1].passenger_type = "Adult"
          /\ response.value[1].discount_percentage = 0
          /\ \A i \in 1..Len(response.value[1].breakdown) :
                response.value[1].breakdown[i].passenger_discount = 0

NoRuleFor(line_id) ==
    line_id \notin DOMAIN FareCalculationService(db)._fare_rules_cache

\* C19: a train segment whose line has no fare rule is priced with the
\* default base fare 25 and a zero distance component, then discounted as
\* usual, and the fare calculation of a whole route whose train segments
\* have no fare rule completes instead of failing.
C19_DefaultFare ==
    /\ (SegmentPriced /\ request.segment.transport_type = "train"
        /\ NoRuleFor(request.segment.line_id)) =>
          LET pct == DiscountOf(db, request.passenger_type_id)
          IN  /\ raised = "none"
              /\ response.value[1].base_fare = DEFAULT_BASE_FARE
              /\ response.value[1].distance_fare = 0
              /\ response.value[1].passenger_discount = (DEFAULT_BASE_FARE * pct) \div 100
              /\ response.value[1].segment_total =
                    DEFAULT_BASE_FARE - ((DEFAULT_BASE_FARE * pct) \div 100)
    /\ (op = "calculate_route_fare" /\ request.route # <<>>
        /\ \A i \in 1..Len(request.route[1].segments) :
              request.route[1].segments[i].transport_type = "train" =>
                  NoRuleFor(request.route[1].segments[i].line_id)) =>
          /\ raised = "none"
          /\ \A i \in 1..Len(response.value[1].breakdown) :
                response.value[1].breakdown[i].segment_type = "train" =>
                    response.value[1].breakdown[i].base_fare = DEFAULT_BASE_FARE

\* ------------------------------------------- properties of ValidationSpec
Validated == op = "validate_route_request"

\* the number of error records of the response on a field with a code of a set
ErrorCount(field, codes) ==
    Cardinality({i \in 1..Len(response.value[1]) :
                    /\ response.value[1][i].field = field
                    /\ response.value[1][i].error_code \in codes})

StationUnknown(id) == id \notin DOMAIN db.stations

StationOutOfService(id) == id \in DOMAIN db.stations /\ db.stations[id].status # "active"

\* the departure time read on the wall clock lies outside [now - 1 hour,
\* now + 30 days]
DepartureOutside ==
    /\ request.departure_time # <<>>
    /\ \/ request.departure_time[1].wall < ValidationClock - 1
       \/ request.departure_time[1].wall > ValidationClock + 30 * 24

ViolatedChecks ==
    {c \in {"same", "from", "to", "passenger", "departure", "walking",
            "transfers", "optimization"} :
        \/ c = "same" /\ request.from_station_id = request.to_station_id
        \/ c = "from" /\ ~(request.from_station_id \in DOMAIN db.stations
                           /\ db.stations[request.from_station_id].status = "active")
        \/ c = "to" /\ ~(request.to_station_id \in DOMAIN db.stations
                         /\ db.stations[request.to_station_id].status = "active")
        \/ c = "passenger" /\ \A i \in 1..Len(db.passenger_types) :
                                 db.passenger_types[i].id # request.passenger_type_id
        \/ c = "departure" /\ DepartureOutside
        \/ c = "walking" /\ request.max_walking_time \notin 1..60
        \/ c = "transfers" /\ request.max_transfers \notin 0..5
        \/ c = "optimization" /\ request.optimization \notin {"time", "cost", "transfers"}}

\* C20: validate_route_request runs every check whatever failed before and
\* returns exactly one error record per violated check (same station,
\* origin unknown or inactive, destination unknown or inactive, passenger
\* type unknown, departure time outside [now - 1 hour, now + 30 days],
\* max_walking_time outside [1, 60], max_transfers outside [0, 5],
\* optimization outside the three modes) and no other record; the list is
\* empty exactly when no check is violated.
C20_OneErrorPerViolatedCheck ==
    Validated =>
        /\ raised = "none"
        /\ Len(response.value[1]) = Cardinality(ViolatedChecks)
        /\ (response.value[1] = <<>>) <=> (ViolatedChecks = {})
        /\ ErrorCount("to_station_id", {"SAME_STATION"}) =
              IF "same" \in ViolatedChecks THEN 1 ELSE 0
        /\ ErrorCount("from_station_id", {"INVALID_FROM_STATION"}) =
              IF StationUnknown(request.from_station_id) THEN 1 ELSE 0
        /\ ErrorCount("from_station_id", {"STATION_INACTIVE"}) =
              IF StationOutOfService(request.from_station_id) THEN 1 ELSE 0
        /\ ErrorCount("to_station_id", {"INVALID_TO_STATION"}) =
              IF StationUnknown(request.to_station_id) THEN 1 ELSE 0
        /\ ErrorCount("to_station_id", {"STATION_INACTIVE"}) =
              IF StationOutOfService(request.to_station_id) THEN 1 ELSE 0
        /\ ErrorCount("passenger_type_id", {"INVALID_PASSENGER_TYPE"}) =
              IF "passenger" \in ViolatedChecks THEN 1 ELSE 0
        /\ ErrorCount("departure_time", {"PAST_DEPARTURE_TIME", "FUTURE_DEPARTURE_TIME"}) =
              IF "departure" \in ViolatedChecks THEN 1 ELSE 0
        /\ ErrorCount("max_walking_time", {"INVALID_WALKING_TIME", "EXCESSIVE_WALKING_TIME"}) =
              IF "walking" \in ViolatedChecks THEN 1 ELSE 0
        /\ ErrorCount("max_transfers", {"INVALID_TRANSFERS", "EXCESSIVE_TRANSFERS"}) =
              IF "transfers" \in ViolatedChecks THEN 1 ELSE 0
        /\ ErrorCount("optimization", {"INVALID_OPTIMIZATION"}) =
              IF "optimization" \in ViolatedChecks THEN 1 ELSE 0

\* a request that violates seven checks at once and gets seven records
C20_Witness ==
    /\ Validated
    /\ request.from_station_id = request.to_station_id
    /\ StationUnknown(request.from_station_id)
    /\ request.departure_time # <<>>
    /\ request.departure_time[1].wall = ValidationClock - 2
    /\ request.max_walking_time = 61
    /\ request.max_transfers = -1
    /\ Len(response.value[1]) = 7
    /\ response.value[1][1].error_code = "SAME_STATION"
    /\ response.value[1][7].error_code = "INVALID_TRANSFERS"

\* ------------------------------------------------ the feasibility probe
Probed == op = "validate_route_feasibility"

\* C21: the probe reports the pair as connected exactly when both stations
\* exist and share a line or the destination is reachable from the origin
\* through a chain, of any length, of same-line adjacency and active
\* transfer points; so a pair the route search connects with max_transfers
\* >= 1 is never reported as not feasible.
C21_ProbeIsReachability ==
    Probed =>
        LET from_id == request.from_station_id
            to_id == request.to_station_id
        IN  /\ response.value[1].is_connected <=>
                  /\ from_id \in DOMAIN db.stations
                  /\ to_id \in DOMAIN db.stations
                  /\ \/ db.stations[from_id].line_id = db.stations[to_id].line_id
                     \/ DbReachable(db, from_id, to_id)
            /\ (request.max_transfers >= 1
                /\ plan_route(db, graph, request).routes # <<>>) =>
                  response.value[1].is_feasible

\* ------------------------------------------------------ the plan endpoint
\* C22: in the plan operation a request for which validate_route_request
\* returns an error or validate_route_feasibility returns not feasible is
\* rejected (400) with no route and nothing added to the route cache; a
\* request that passes both gets the outcome of the search, whether or not
\* there are feasibility warnings.
C22_RejectedBeforeSearch ==
    [][ (op' = "plan_route") =>
          \A current_time \in ClockValues :
             LET errors == validate_route_request(db, request', current_time)
                 feasible == validate_route_feasibility(db, request')
                 searched == plan_route(db, graph, request')
             IN  /\ (errors # <<>> \/ ~feasible) =>
                       /\ raised' = "HTTPException"
                       /\ response'.status_code = 400
                       /\ routes' = <<>>
                       /\ route_cache' = route_cache
                 /\ (errors = <<>> /\ feasible) =>
                       /\ routes' = searched.routes
                       /\ route_cache' = route_cache \cup Range(searched.routes)
                       /\ (searched.routes # <<>>) => raised' = "none"
       ]_vars

\* a request refused as not feasible although the search finds a route for
\* it: the cache keeps the routes it had and does not get that route
C22_Witness ==
    /\ op = "plan_route"
    /\ raised = "HTTPException"
    /\ response.status_code = 400
    /\ response.detail.message = "Route is not feasible"
    /\ routes = <<>>
    /\ route_cache # {}
    /\ plan_route(db, graph, request).routes # <<>>
    /\ \A r \in Range(plan_route(db, graph, request).routes) : r \notin route_cache
\* C23: answering planning requests leaves the graph as the build produced
\* it: after any sequence of calculate_route and plan_route calls the nodes,
\* the adjacency lists and the station-to-line map equal those of the build
C23_GraphNeverMutated == graph = _build_network_graph(db)

\* a search has looked up the neighbours of a station that is not in the
\* graph, the one lookup that could store a key, and the caller has taken
\* the answer
C23_Witness ==
    /\ op = "calculate_route"
    /\ request.from_station_id = UnknownStationId
    /\ request.to_station_id \in StationIds
    /\ CalculateRouteReads(graph, request) = <<UnknownStationId>>
    /\ routes = <<>>

\* the edge objects of the graph, and the station each is filed under
GraphEdges(g) == UNION {Range(g.edges[s]) : s \in DOMAIN g.edges}

OnLine(d, line) == {x \in DOMAIN d.stations : d.stations[x].line_id = line}

\* b follows a in the name order of the stations of the line
NameConsecutive(d, line, a, b) ==
    /\ a \in OnLine(d, line) /\ b \in OnLine(d, line)
    /\ d.stations[a].name < d.stations[b].name
    /\ ~\E c \in OnLine(d, line) :
          d.stations[a].name < d.stations[c].name
          /\ d.stations[c].name < d.stations[b].name

ExpectedTrainEdges(d) ==
    UNION { { NetworkEdge(a, b, "train", TRAIN_DURATION, BASE_FARE, line),
              NetworkEdge(b, a, "train", TRAIN_DURATION, BASE_FARE, line) } :
            <<line, a, b>> \in { t \in d.train_lines \X (DOMAIN d.stations) \X (DOMAIN d.stations) :
                                  NameConsecutive(d, t[1], t[2], t[3]) } }

ExpectedTransferEdges(d) ==
    UNION { { NetworkEdge(t.station_a_id, t.station_b_id, "transfer",
                          t.walking_time_minutes, t.transfer_fee, None),
              NetworkEdge(t.station_b_id, t.station_a_id, "transfer",
                          t.walking_time_minutes, t.transfer_fee, None) } :
            t \in {x \in Range(d.transfer_points) : x.is_active} }

ReverseEdge(e) ==
    [e EXCEPT !.from_station_id = e.to_station_id, !.to_station_id = e.from_station_id]

\* C24: after the build the edges of the graph are exactly a forward and a
\* reverse train edge for every two name-consecutive stations of every line
\* and a forward and a reverse transfer edge for every active transfer
\* point; every edge is filed under its origin and has its reverse with the
\* same type, duration, cost and line id
C24_EdgeSetOfBuild ==
    /\ GraphEdges(graph) = ExpectedTrainEdges(db) \cup ExpectedTransferEdges(db)
    /\ \A s \in DOMAIN graph.edges :
          \A i \in 1..Len(graph.edges[s]) : graph.edges[s][i].from_station_id = s
    /\ \A e \in GraphEdges(graph) : ReverseEdge(e) \in GraphEdges(graph)

\* a line of three stations whose name order is not the id order, so that
\* two of its stations are not consecutive, with an active and an inactive
\* transfer point
C24_Witness ==
    /\ \A s \in StationIds : db.stations[s].line_id = 1
    /\ db.stations[3].name < db.stations[1].name
    /\ db.stations[1].name < db.stations[2].name
    /\ \E i, j \in 1..Len(db.transfer_points) :
          db.transfer_points[i].is_active /\ ~db.transfer_points[j].is_active
    /\ Cardinality(GraphEdges(graph)) = 6

\* the state of the primary search of the request when its loop has ended
PrimarySearch ==
    SearchLoop(graph, SearchStart(request.from_station_id), request.to_station_id,
               request.optimization, request.max_walking_time, request.max_transfers)

Searched == op = "calculate_route" /\ request.from_station_id # request.to_station_id

\* a train edge that leaves the path p on another line than the train edge
\* p ends with
IsLineChange(p, edge) ==
    /\ p # <<>>
    /\ p[Len(p)].transport_type = "train"
    /\ edge.transport_type = "train"
    /\ p[Len(p)].line_id # edge.line_id

\* C25: the transfer counter of every path the search has queued is the
\* number of its transfer edges plus the number of its train edges that
\* follow a train edge of another line, and no queued path has a counter
\* above max_transfers
C25_LineChangeCountsAsTransfer ==
    Searched =>
        \A i \in 1..Len(PrimarySearch.pushed) :
            LET entry == PrimarySearch.pushed[i]
            IN  /\ entry.transfers = PathTransfers(entry.path)
                /\ entry.transfers <= request.max_transfers

\* the only way on leads over a change of line that would exceed the cap: the
\* search has expanded the station before it and has not queued the next
C25_Witness ==
    /\ Searched
    /\ routes = <<>>
    /\ PathsBetween(graph, request.from_station_id, request.to_station_id) # {}
    /\ \E i \in 1..Len(PrimarySearch.pushed) :
          LET entry == PrimarySearch.pushed[i]
          IN  /\ entry.transfers = request.max_transfers
              /\ InSeq(entry.station, PrimarySearch.expanded)
              /\ \E edge \in Range(get_neighbors(graph, entry.station)) :
                    /\ IsLineChange(entry.path, edge)
                    /\ edge.to_station_id \notin
                         {PrimarySearch.pushed[k].station : k \in 1..Len(PrimarySearch.pushed)}

\* the number of edge objects in the adjacency lists
EdgeCount(g) == SumInts([i \in 1..Len(SetToSeq(DOMAIN g.edges)) |->
                            Len(g.edges[SetToSeq(DOMAIN g.edges)[i]])])

\* every iteration pops an entry and every entry was inserted once: the
\* first by line 209, the others for an edge of a station being expanded
InsertionBound(g) == 1 + EdgeCount(g)

\* the primary search of the request cut off after InsertionBound iterations
BoundedSearch ==
    SearchSteps(graph, SearchStart(request.from_station_id), InsertionBound(graph),
                request.to_station_id, request.optimization,
                request.max_walking_time, request.max_transfers)

NoRepeats(seq) == \A i, j \in 1..Len(seq) : seq[i] = seq[j] => i = j

\* C26: the search loop ends within as many iterations as one plus the
\* number of edges; no station is expanded twice, the insertions into the
\* queue are at most one plus the number of edges, and the loop ends with the
\* destination popped, and then a route is returned, or with the queue
\* empty, and then none is
C26_SearchTerminates ==
    Searched =>
        /\ BoundedSearch.found \/ BoundedSearch.pq = <<>>
        /\ NoRepeats(BoundedSearch.expanded)
        /\ BoundedSearch.pushes <= InsertionBound(graph)
        /\ BoundedSearch.found => (routes # <<>> \/ raised # "none")
        /\ ~BoundedSearch.found => routes = <<>>

\* a search that has queued a station twice, the second time on a cheaper
\* path, and has run until the queue was empty
C26_Witness ==
    /\ Searched
    /\ ~BoundedSearch.found
    /\ BoundedSearch.pq = <<>>
    /\ \E i, j \in 1..Len(BoundedSearch.pushed) :
          /\ i < j
          /\ BoundedSearch.pushed[i].station = BoundedSearch.pushed[j].station
    /\ Len(BoundedSearch.expanded) = MaxStations

\* the step is a plan or alternatives call that returns routes
ReturnsRoutes == op' \in {"plan_route", "get_route_alternatives"} /\ raised' = "none"

\* the step is a details or fare call on an id that is not in the cache, or
\* a comparison whose list holds one
LooksUpUnknownId ==
    \/ op' \in {"get_route_details", "calculate_route_fare"} /\ request'.route = <<>>
    \/ op' = "compare_route_fares" /\ \E i \in 1..Len(request'.routes) : request'.routes[i] = <<>>

ReportsNotFound == raised' = "HTTPException" /\ response'.status_code = 404

\* C27 as stated: no step removes or replaces a cached route, the routes a
\* plan or alternatives call returns are cached, and every details, fare or
\* compare call on an id that is not cached reports not found and leaves the
\* cache as it was
C27_Original ==
    [][ /\ route_cache \subseteq route_cache'
        /\ ReturnsRoutes => Range(routes') \subseteq route_cache'
        /\ LooksUpUnknownId => (ReportsNotFound /\ route_cache' = route_cache) ]_vars

\* C27 as amended: the same, the comparison being one of at most ten ids; a
\* longer list is refused with status 400 before any id is looked up, the
\* cache unchanged
C27_CacheNeverEvicts ==
    [][ /\ route_cache \subseteq route_cache'
        /\ ReturnsRoutes => Range(routes') \subseteq route_cache'
        /\ LooksUpUnknownId =>
              /\ route_cache' = route_cache
              /\ raised' = "HTTPException"
              /\ IF op' = "compare_route_fares" /\ Len(request'.routes) > MAX_COMPARED_ROUTES
                 THEN response'.status_code = 400
                 ELSE response'.status_code = 404 ]_vars

\* a cached route is read back while the cache holds a route of a plan call
\* and a boosted route, which only an alternatives call returns
C27_Witness ==
    /\ op = "get_route_details"
    /\ raised = "none"
    /\ response.value[1] \in route_cache
    /\ \E r \in route_cache : r.optimization_score > SCORE_BASE
    /\ \E r \in route_cache : r.optimization_score <= SCORE_BASE

\* the edge a segment was made of
EdgeOfSegment(seg) ==
    NetworkEdge(seg.from_station_id, seg.to_station_id, seg.transport_type,
                seg.duration_minutes, seg.cost, seg.line_id)

\* the stations a sequence of segments passes, the origin first
StationsOf(segs) ==
    <<segs[1].from_station_id>> \o [i \in 1..Len(segs) |-> segs[i].to_station_id]

WellFormedSimplePath(g, req, segs) ==
    /\ Len(segs) >= 1
    /\ \A i \in 1..Len(segs) : segs[i].segment_order = i
    /\ segs[1].from_station_id = req.from_station_id
    /\ segs[Len(segs)].to_station_id = req.to_station_id
    /\ \A i \in 2..Len(segs) : segs[i].from_station_id = segs[i - 1].to_station_id
    /\ \A i \in 1..Len(segs) :
          InSeq(EdgeOfSegment(segs[i]), get_neighbors(g, segs[i].from_station_id))
    /\ NoRepeats(StationsOf(segs))

\* C28: every returned RouteOption has at least one segment, its segments
\* are numbered 1, 2, ..., n, lead from the requested origin to the requested
\* destination, each starting where the one before ends, each is an edge of
\* the graph, and no station occurs twice
C28_RoutesAreSimplePaths ==
    \A k \in 1..Len(routes) : WellFormedSimplePath(graph, request, routes[k].segments)

\* two routes are returned, one of them passing every station, in a graph
\* where a walk could also return to a station
C28_Witness ==
    /\ Called
    /\ Len(routes) >= 2
    /\ \E k \in 1..Len(routes) : Len(routes[k].segments) = MaxStations - 1
    /\ \E k \in 1..Len(routes) : Len(routes[k].segments) = 1
    /\ \E k \in 1..Len(routes) :
          \E i \in 1..Len(routes[k].segments) :
              routes[k].segments[i].transport_type = "transfer"

\* the step is a validation that answers allow_entry = true
GrantsEntry ==
    op' = "validate_ticket" /\ raised' = "none" /\ response'.value[1].allow_entry

\* the step is a validation of a stored ticket that was USED before it
ValidatesUsedTicket ==
    /\ op' = "validate_ticket"
    /\ request'.ticket_id \in DOMAIN _ticket_storage
    /\ _ticket_storage[request'.ticket_id].ticket_status = "used"

EntriesLogged(logs, ticket_id) ==
    Cardinality({i \in 1..Len(logs) : logs[i].ticket_id = ticket_id /\ logs[i].success})

\* a validation grants entry only to an ACTIVE ticket that was never granted
\* entry, and leaves it USED; a USED, CANCELLED, EXPIRED or REFUNDED ticket
\* keeps its status in every step
EntryAtMostOnce ==
    /\ GrantsEntry =>
          /\ request'.ticket_id \in DOMAIN _ticket_storage
          /\ _ticket_storage[request'.ticket_id].ticket_status = "active"
          /\ _ticket_storage'[request'.ticket_id].ticket_status = "used"
          /\ EntriesLogged(_validation_logs, request'.ticket_id) = 0
          /\ EntriesLogged(_validation_logs', request'.ticket_id) = 1
    /\ \A id \in DOMAIN _ticket_storage :
          _ticket_storage[id].ticket_status \in {"used", "cancelled", "expired", "refunded"}
              => _ticket_storage'[id].ticket_status = _ticket_storage[id].ticket_status

\* validate_ticket on a ticket that is CANCELLED, EXPIRED or REFUNDED, for
\* every request of the model: the storage stays as it is and no entry is
\* granted. No code of the repository sets EXPIRED or REFUNDED.
DeadTicketsStayDead ==
    \A status \in {"cancelled", "expired", "refunded"}, req \in TicketValidationRequests :
        LET ticket == [_generate_single_ticket(<<>>, CHOOSE b \in TicketBookings : TRUE, 1)
                         EXCEPT !.ticket_status = status, !.ticket_id = req.ticket_id]
            storage == Put(<<>>, req.ticket_id, ticket)
            out == validate_ticket(storage, <<>>, [req EXCEPT !.qr_code_data = ticket.qr_code_data])
        IN  /\ out.storage = storage
            /\ out.logs = <<>>
            /\ out.res.raised = "none" => ~out.res.value[1].allow_entry

\* C29 as stated: a ticket grants entry at most once, after it the ticket is
\* USED and every later validation of it returns already_used, and a
\* CANCELLED, EXPIRED or REFUNDED ticket never becomes USED nor grants entry
C29_Original ==
    [][ /\ EntryAtMostOnce
        /\ DeadTicketsStayDead
        /\ ValidatesUsedTicket =>
              /\ raised' = "none"
              /\ response'.value[1].validation_status = "already_used" ]_vars

\* C29 as amended: the same, a later validation of the USED ticket being
\* refused with already_used when it presents the ticket's QR data and with
\* tampered when it presents other data
C29_EntryAtMostOnce ==
    [][ /\ EntryAtMostOnce
        /\ DeadTicketsStayDead
        /\ ValidatesUsedTicket =>
              /\ raised' = "none"
              /\ ~response'.value[1].allow_entry
              /\ _ticket_storage' = _ticket_storage
              /\ response'.value[1].validation_status =
                    IF request'.qr_code_data
                         = _ticket_storage[request'.ticket_id].qr_code_data
                    THEN "already_used" ELSE "tampered" ]_vars

\* a ticket that was granted entry once is presented again, with its own QR
\* data at a valid time and station, and is refused as already used, while
\* another ticket is cancelled
C29_Witness ==
    /\ op = "validate_ticket"
    /\ request.ticket_id \in DOMAIN _ticket_storage
    /\ _ticket_storage[request.ticket_id].ticket_status = "used"
    /\ _ticket_storage[request.ticket_id].used_at # request.validation_timestamp
    /\ request.qr_code_data = _ticket_storage[request.ticket_id].qr_code_data
    /\ raised = "none"
    /\ response.value[1].validation_status = "already_used"
    /\ EntriesLogged(_validation_logs, request.ticket_id) = 1
    /\ \E id \in DOMAIN _ticket_storage : _ticket_storage[id].ticket_status = "cancelled"

\* booking id is stored before and after the step and its status differs
StatusChanges(id) ==
    /\ id \in DOMAIN _booking_storage'
    /\ _booking_storage'[id].booking_status # _booking_storage[id].booking_status

\* the step is a call of one of the four operations for booking id, or a
\* run of process_expired_bookings
CallsOn(id) ==
    \/ op' = "process_expired_bookings"
    \/ /\ op' \in {"confirm_booking", "modify_booking", "cancel_booking"}
       /\ request'.booking_id = id

\* a new booking is PENDING; process_expired_bookings changes PENDING
\* bookings only; a CANCELLED booking stays CANCELLED, and a call of
\* confirm_booking, modify_booking or cancel_booking for it is rejected
RestrictedTransitions ==
    /\ \A id \in (DOMAIN _booking_storage') \ (DOMAIN _booking_storage) :
          /\ op' = "create_reservation"
          /\ _booking_storage'[id].booking_status = "pending"
    /\ DOMAIN _booking_storage \subseteq DOMAIN _booking_storage'
    /\ \A id \in DOMAIN _booking_storage :
          /\ StatusChanges(id) => CallsOn(id)
          /\ (op' = "process_expired_bookings" /\ StatusChanges(id))
                => _booking_storage[id].booking_status = "pending"
          /\ _booking_storage[id].booking_status = "cancelled" =>
                /\ _booking_storage'[id] = _booking_storage[id]
                /\ (CallsOn(id) /\ op' # "process_expired_bookings") => raised' # "none"

\* booking id becomes CONFIRMED in the step
BecomesConfirmed(id) ==
    /\ StatusChanges(id)
    /\ _booking_storage'[id].booking_status = "confirmed"

\* C30 as stated: a booking becomes CONFIRMED only from PENDING and only
\* before booking_expires_at, process_expired_bookings changes only PENDING
\* bookings, and no call changes the status of a CANCELLED booking
C30_Original ==
    [][ /\ RestrictedTransitions
        /\ \A id \in DOMAIN _booking_storage :
              BecomesConfirmed(id) =>
                /\ op' = "confirm_booking"
                /\ _booking_storage[id].booking_status = "pending"
                /\ now < _booking_storage[id].booking_expires_at ]_vars

\* C30 as amended: the same, a booking becoming CONFIRMED only from PENDING
\* and only at a time that is not after booking_expires_at
C30_RestrictedTransitions ==
    [][ /\ RestrictedTransitions
        /\ \A id \in DOMAIN _booking_storage :
              BecomesConfirmed(id) =>
                /\ op' = "confirm_booking"
                /\ _booking_storage[id].booking_status = "pending"
                /\ _booking_storage'[id].payment_status = "paid"
                /\ now <= _booking_storage[id].booking_expires_at ]_vars

\* a confirmation is rejected because the booking is CANCELLED, at a time
\* that is not after its booking_expires_at, while another booking is
\* CONFIRMED and paid
C30_Witness ==
    /\ op = "confirm_booking"
    /\ raised = "ValueError: Booking cannot be confirmed"
    /\ request.booking_id \in DOMAIN _booking_storage
    /\ _booking_storage[request.booking_id].booking_status = "cancelled"
    /\ now <= _booking_storage[request.booking_id].booking_expires_at
    /\ \E id \in DOMAIN _booking_storage :
          /\ _booking_storage[id].booking_status = "confirmed"
          /\ _booking_storage[id].payment_status = "paid"

====
